---- MODULE Spec2Model ----
(***************************************************************************)
(* A model of the multi-source quote / time-series resolution of the       *)
(* Financial Dashboard backend: the symbol predicates, the Yahoo Finance   *)
(* fallback adapter, the AlphaVantageHybrid resolver, the                  *)
(* AlphaVantageService adapter with its rate-limit cooldown, the           *)
(* HybridDataService quote, the Angel One adapter with its login step and  *)
(* the cached HTTP endpoints of main_combined.py.                          *)
(*                                                                         *)
(* Time is counted in minutes.  A symbol is the sequence of its            *)
(* characters, an error message the sequence of its words.                 *)
(***************************************************************************)
EXTENDS Integers, Sequences, FiniteSets, TLC

VARIABLES
    now,                    \* datetime.now(), in minutes
    enabled,                \* AlphaVantageHybrid.enabled
    svc_enabled,            \* AlphaVantageService.enabled
    rate_limited,           \* AlphaVantageService.rate_limited
    rate_limit_reset_time,  \* AlphaVantageService.rate_limit_reset_time
    angel_enabled,          \* AngelOneService.enabled
    auth_token,             \* AngelOneService.auth_token
    token_expiry,           \* AngelOneService.token_expiry
    auth_header,            \* AngelOneService.session.headers['Authorization']
    rl_seen,                \* the last quote request that met a rate-limit error
    req,                    \* the request just served, until the caller takes it
    cache,                  \* the key -> (value, expiry) map behind get_cached_data
    last_put,               \* per key, the arguments and time of the last cache_data
    procs,                  \* the HTTP requests in progress, one per worker
    usd_to_inr_rate,        \* CurrencyService.usd_to_inr_rate
    last_update,            \* CurrencyService.last_update
    api_key                 \* CurrencyService.api_key

avVars == <<enabled, svc_enabled, rate_limited, rate_limit_reset_time>>

angelVars == <<angel_enabled, auth_token, token_expiry, auth_header>>

cacheVars == <<cache, last_put, procs>>

currencyVars == <<usd_to_inr_rate, last_update, api_key>>

vars == <<now, avVars, angelVars, rl_seen, req, cacheVars, currencyVars>>

-----------------------------------------------------------------------------
(* Bounds *)

\* the clock stops advancing here
MaxTime == 2160

\* the clock of the currency service stops advancing here
MaxCurrencyTime == 120

\* the longest price series
MaxPrices == 15

\* the clock of the cached endpoints stops advancing here
MaxCacheTime == 20

-----------------------------------------------------------------------------
(* Values *)

\* Python's None
None == [absent |-> TRUE]

\* an exception leaving a function
Raised == [raised |-> TRUE]

\* an optional point in time
At(t) == [at |-> t]

\* Python's truth value of a value: None and the empty list are false
truthy(v) ==
    IF v = None THEN FALSE
    ELSE IF "list" \in DOMAIN v THEN v.list # <<>>
    ELSE TRUE

\* timedelta(hours=24), alpha_vantage_service.py:399
RateLimitCooldown == 24 * 60

\* timedelta(hours=23), angel_one_service.py:72
TokenLifetime == 23 * 60

\* half a day, the step of the clock
HalfDay == 12 * 60

-----------------------------------------------------------------------------
(* Strings *)

DotNS == <<".", "N", "S">>

DotBSE == <<".", "B", "S", "E">>

AAPL == <<"A", "A", "P", "L">>

\* a US ticker that spells an exchange name but carries no suffix
BSE == <<"B", "S", "E">>

TCS_NS == <<"T", "C", "S", ".", "N", "S">>

TCS_BSE == <<"T", "C", "S", ".", "B", "S", "E">>

ZZ_BSE == <<"Z", "Z", ".", "B", "S", "E">>

\* a symbol that carries both exchange suffixes
ZZ_NS_BSE == <<"Z", "Z", ".", "N", "S", ".", "B", "S", "E">>

\* the symbols resolver requests are made for
Symbols == {AAPL, BSE, TCS_NS, ZZ_BSE}

\* the symbols AlphaVantageService requests are made for
ServiceSymbols == {AAPL, ZZ_BSE, TCS_NS}

\* the symbols HybridDataService requests are made for
HybridDataSymbols == {AAPL, ZZ_BSE}

\* the longest generated symbol
MaxSymbolLen == 4

\* the characters generated symbols are made of
SymbolChars == {".", "N", "S", "Z"}

\* the symbols the mapper is asked about: the named ones and every string
\* of at most MaxSymbolLen characters
MapperSymbols ==
    {AAPL, BSE, TCS_NS, TCS_BSE, ZZ_BSE, ZZ_NS_BSE}
        \cup UNION {[1..k -> SymbolChars] : k \in 0..MaxSymbolLen}

\* str.endswith
endswith(s, suffix) ==
    /\ Len(s) >= Len(suffix)
    /\ SubSeq(s, Len(s) - Len(suffix) + 1, Len(s)) = suffix

\* `sub in s` for strings
contains(s, sub) ==
    \E i \in 1..(Len(s) + 1) :
        /\ i + Len(sub) - 1 <= Len(s)
        /\ SubSeq(s, i, i + Len(sub) - 1) = sub

\* str.lower, one word at a time
lower_word(w) ==
    CASE w = "API"     -> "api"
      [] w = "Rate"    -> "rate"
      [] w = "Limit"   -> "limit"
      [] w = "RATE"    -> "rate"
      [] w = "LIMIT"   -> "limit"
      [] w = "Premium" -> "premium"
      [] w = "Connection" -> "connection"
      [] OTHER         -> w

lower(s) == [i \in 1..Len(s) |-> lower_word(s[i])]

\* str.upper on an indicator name or a currency code
upper(f) ==
    CASE f = "sma" -> "SMA"
      [] f = "ema" -> "EMA"
      [] f = "usd" -> "USD"
      [] f = "inr" -> "INR"
      [] OTHER     -> f

\* the error texts the Alpha Vantage client raises
E_RateLimit == <<"API", "Rate", "Limit", "exceeded">>

E_Premium == <<"Premium", "endpoint">>

E_Timeout == <<"Connection", "timed", "out">>

ErrMsgs == {E_RateLimit, E_Premium, E_Timeout}

\* what one Alpha Vantage call does: data, an empty frame, or an error
AVOutcomes == {<<"data">>, <<"empty">>} \cup ErrMsgs

\* what one call of the candidate loop of a quote does
QuoteAVOutcomes == AVOutcomes \ {E_Premium}

AVData == <<"data">>

\* what yfinance does for one ticker: .info and .history
YahooOutcomes ==
    { [info |-> "ok",    hist |-> "ok"],
      [info |-> "ok",    hist |-> "short"],
      [info |-> "empty", hist |-> "ok"],
      [info |-> "ok",    hist |-> "empty"],
      [info |-> "raise", hist |-> "ok"],
      [info |-> "ok",    hist |-> "raise"] }

\* the indicator names requests carry
Functions == {"SMA", "ema", "MACD", "BBANDS", "STOCH"}

\* the yfinance outcomes that differ for a quote
YahooQuoteOutcomes == {y \in YahooOutcomes : y.hist # "short" /\ y.info # "raise"}

-----------------------------------------------------------------------------
(* AlphaVantageHybrid *)

\* a suffix test that forgets the Bombay exchange
is_indian_symbol_ns_only(symbol) ==
    endswith(symbol, DotNS)

_is_indian_symbol(symbol) ==
    endswith(symbol, DotNS) \/ endswith(symbol, DotBSE)

\* the try block of _get_yahoo_fallback
yahoo_fallback_body(symbol, data_type, y) ==
    IF data_type = "quote" THEN
        IF y.info = "raise" \/ y.hist = "raise" THEN Raised
        ELSE IF y.hist = "empty" \/ y.info = "empty" THEN None
        ELSE [symbol |-> symbol, data_type |-> "quote",
              source |-> "Yahoo Finance (Hybrid Fallback)", producer |-> "YF"]
    ELSE IF data_type \in {"daily", "intraday"} THEN
        IF y.hist = "raise" THEN Raised
        ELSE IF y.hist = "empty" THEN None
        ELSE [symbol |-> symbol, data_type |-> data_type, rows |-> "some",
              producer |-> "YF"]
    ELSE IF data_type = "indicators" THEN
        IF y.hist = "raise" THEN Raised
        ELSE IF y.hist = "empty" THEN None
        ELSE [symbol |-> symbol, data_type |-> "indicators",
              rows |-> IF y.hist = "short" THEN "none" ELSE "some",
              producer |-> "YF"]
    ELSE None

\* the adapter without its except clause
yahoo_fallback_unguarded(symbol, data_type, y) ==
    yahoo_fallback_body(symbol, data_type, y)

_get_yahoo_fallback(symbol, data_type, y) ==
    LET r == yahoo_fallback_body(symbol, data_type, y)
    IN  IF r = Raised THEN None ELSE r

\* one entry of the log of provider calls a request makes
AVCall(symbol, kind, out) ==
    [p |-> "AV", sym |-> symbol, kind |-> kind, out |-> out]

YFCall(symbol, kind, y) ==
    [p |-> "YF", sym |-> symbol, kind |-> kind, y |-> y,
     out |-> _get_yahoo_fallback(symbol, kind, y)]

\* the phrases the resolver takes for a rate-limit error
HybridRateLimitPhrases ==
    { <<"rate", "limit">>, <<"api", "calls">>, <<"25", "requests">>, <<"premium">> }

hybrid_is_rate_limit(error_msg) ==
    \E phrase \in HybridRateLimitPhrases : contains(lower(error_msg), phrase)

\* the except clause of the resolver: it only logs
hybrid_except(error_msg) ==
    IF hybrid_is_rate_limit(error_msg)
    THEN <<"Alpha Vantage rate limit reached, using Yahoo Finance fallback">>
    ELSE <<"Alpha Vantage error">>

\* a resolver that consults Yahoo Finance even when Alpha Vantage delivered
hybrid_resolve_eager_fallback(symbol, kind, av, y, record) ==
    LET c == YFCall(symbol, kind, y)
    IN  IF _is_indian_symbol(symbol) \/ ~enabled THEN
            [result |-> c.out, calls |-> <<c>>, log |-> <<>>]
        ELSE
            [result |-> IF av = AVData THEN record ELSE c.out,
             calls |-> <<AVCall(symbol, kind, av), c>>,
             log |-> IF av \in ErrMsgs THEN hybrid_except(av) ELSE <<>>]

\* the Alpha Vantage attempt and the fallback that all four resolver
\* operations share: av is what the Alpha Vantage call does, record the
\* value returned when it delivers data
hybrid_resolve(symbol, kind, av, y, record) ==
    IF _is_indian_symbol(symbol) THEN
        LET c == YFCall(symbol, kind, y)
        IN  [result |-> c.out, calls |-> <<c>>, log |-> <<>>]
    ELSE IF enabled THEN
        IF av = AVData THEN
            [result |-> record, calls |-> <<AVCall(symbol, kind, av)>>,
             log |-> <<>>]
        ELSE
            LET c == YFCall(symbol, kind, y)
            IN  [result |-> c.out,
                 calls |-> <<AVCall(symbol, kind, av), c>>,
                 log |-> IF av \in ErrMsgs THEN hybrid_except(av) ELSE <<>>]
    ELSE
        LET c == YFCall(symbol, kind, y)
        IN  [result |-> c.out, calls |-> <<c>>, log |-> <<>>]

get_quote(symbol, av, y) ==
    hybrid_resolve(symbol, "quote", av, y,
        [symbol |-> symbol, data_type |-> "quote",
         source |-> "Alpha Vantage", producer |-> "AV"])

\* a daily request that asks Alpha Vantage a second time before falling back
get_daily_data_retrying(symbol, av, y) ==
    LET r == hybrid_resolve(symbol, "daily", av, y,
                 [symbol |-> symbol, data_type |-> "daily", rows |-> "some",
                  producer |-> "AV"])
    IN  IF Len(r.calls) = 2
        THEN [r EXCEPT !.calls = <<r.calls[1], r.calls[1], r.calls[2]>>]
        ELSE r

get_daily_data(symbol, av, y) ==
    hybrid_resolve(symbol, "daily", av, y,
        [symbol |-> symbol, data_type |-> "daily", rows |-> "some",
         producer |-> "AV"])

\* an intraday request that gives up when Alpha Vantage raises
get_intraday_data_giving_up(symbol, av, y) ==
    LET r == hybrid_resolve(symbol, "intraday", av, y,
                 [symbol |-> symbol, data_type |-> "intraday", rows |-> "some",
                  producer |-> "AV"])
    IN  IF Len(r.calls) = 2 /\ av \in ErrMsgs
        THEN [r EXCEPT !.calls = <<r.calls[1]>>, !.result = None]
        ELSE r

get_intraday_data(symbol, av, y) ==
    hybrid_resolve(symbol, "intraday", av, y,
        [symbol |-> symbol, data_type |-> "intraday", rows |-> "some",
         producer |-> "AV"])

\* the indicator functions the resolver passes on to Alpha Vantage
HybridIndicators == {"SMA", "EMA", "RSI", "MACD"}

get_technical_indicators(symbol, function, av, y) ==
    IF /\ ~_is_indian_symbol(symbol)
       /\ enabled
       /\ upper(function) \notin HybridIndicators
    THEN [result |-> None, calls |-> <<>>, log |-> <<"Unsupported indicator">>]
    ELSE hybrid_resolve(symbol, "indicators", av, y,
            [symbol |-> symbol, data_type |-> "indicators", rows |-> "some",
             producer |-> "AV"])


-----------------------------------------------------------------------------
(* SymbolMappingService *)

\* the entries of indian_to_us_mapping for the modelled symbols
indian_to_us_mapping == [s \in {TCS_NS} |-> TCS_BSE]

get_us_symbol(indian_symbol) ==
    IF indian_symbol \in DOMAIN indian_to_us_mapping
    THEN indian_to_us_mapping[indian_symbol]
    ELSE None

\* a test for the suffix text anywhere in the symbol
is_indian_symbol_anywhere(symbol) ==
    contains(symbol, DotNS) \/ contains(symbol, DotBSE)

is_indian_symbol(symbol) ==
    endswith(symbol, DotNS) \/ endswith(symbol, DotBSE)

\* str.replace(old, '')
RECURSIVE str_remove(_, _)
str_remove(s, old) ==
    IF Len(s) < Len(old) \/ Len(old) = 0 THEN s
    ELSE IF SubSeq(s, 1, Len(old)) = old
         THEN str_remove(SubSeq(s, Len(old) + 1, Len(s)), old)
         ELSE <<s[1]>> \o str_remove(Tail(s), old)

\* a conversion that does not look into the table
convert_for_alpha_vantage_unmapped(symbol) ==
    IF is_indian_symbol(symbol)
    THEN str_remove(str_remove(symbol, DotNS), DotBSE)
    ELSE symbol

convert_for_alpha_vantage(symbol) ==
    IF is_indian_symbol(symbol) THEN
        LET us_symbol == get_us_symbol(symbol)
        IN  IF us_symbol # None /\ us_symbol # <<>> THEN us_symbol
            ELSE str_remove(str_remove(symbol, DotNS), DotBSE)
    ELSE symbol

\* a candidate list that puts the .NS form before the .BSE form
get_alpha_vantage_fallback_symbols_ns_first(indian_symbol) ==
    LET us_symbol   == get_us_symbol(indian_symbol)
        base_symbol == str_remove(str_remove(indian_symbol, DotNS), DotBSE)
    IN  (IF us_symbol # None THEN <<us_symbol>> ELSE <<>>)
        \o <<base_symbol, base_symbol \o DotNS, base_symbol \o DotBSE>>

get_alpha_vantage_fallback_symbols(indian_symbol) ==
    LET us_symbol   == get_us_symbol(indian_symbol)
        base_symbol == str_remove(str_remove(indian_symbol, DotNS), DotBSE)
    IN  (IF us_symbol # None THEN <<us_symbol>> ELSE <<>>)
        \o <<base_symbol, base_symbol \o DotBSE, base_symbol \o DotNS>>

-----------------------------------------------------------------------------
(* AlphaVantageService *)

_get_fallback_symbols(symbol) ==
    IF is_indian_symbol(symbol)
    THEN get_alpha_vantage_fallback_symbols(symbol)
    ELSE <<symbol>>

\* a rate-limit test that never lets the cooldown end
is_rate_limited_for_good(flag, reset_time) ==
    [limited |-> flag, rate_limited |-> flag,
     rate_limit_reset_time |-> reset_time]

\* returns the answer and the fields as the test leaves them
_is_rate_limited(flag, reset_time) ==
    IF ~flag THEN
        [limited |-> FALSE, rate_limited |-> flag,
         rate_limit_reset_time |-> reset_time]
    ELSE IF reset_time # None /\ now > reset_time.at THEN
        [limited |-> FALSE, rate_limited |-> FALSE,
         rate_limit_reset_time |-> None]
    ELSE
        [limited |-> TRUE, rate_limited |-> flag,
         rate_limit_reset_time |-> reset_time]

_mark_rate_limited ==
    [rate_limited |-> TRUE,
     rate_limit_reset_time |-> At(now + RateLimitCooldown)]

\* the try block of _get_fallback_quote
fallback_quote_body(symbol, y) ==
    IF y.info = "raise" THEN Raised
    ELSE IF y.info = "empty" THEN None
    ELSE IF y.hist = "raise" THEN Raised
    ELSE IF y.hist = "empty" THEN None
    ELSE [symbol |-> symbol, data_type |-> "quote",
          source |-> "Yahoo Finance (Alpha Vantage Fallback)",
          producer |-> "YF"]

_get_fallback_quote(symbol, y) ==
    LET r == fallback_quote_body(symbol, y)
    IN  IF r = Raised THEN None ELSE r

FallbackCall(symbol, y) ==
    [p |-> "YF", sym |-> symbol, kind |-> "quote", y |-> y,
     out |-> _get_fallback_quote(symbol, y)]

\* the test in the except clause of get_stock_quote
quote_is_rate_limit(error_msg) ==
    \/ contains(lower(error_msg), <<"rate", "limit">>)
    \/ contains(error_msg, <<"25", "requests", "per", "day">>)

\* the test in the except clauses of get_daily_data and get_intraday_data
series_is_rate_limit(error_msg) ==
    \E phrase \in HybridRateLimitPhrases : contains(lower(error_msg), phrase)

\* the loop of get_stock_quote from its i-th candidate on; avs[i] is what
\* Alpha Vantage does for the i-th candidate, st the flag and reset time
RECURSIVE quote_loop(_, _, _, _, _, _, _)
quote_loop(symbol, symbols_to_try, i, avs, y, calls, st) ==
    IF i > Len(symbols_to_try) THEN
        LET c == FallbackCall(symbol, y)
        IN  [result |-> c.out, calls |-> Append(calls, c),
             rate_limited |-> st.rate_limited,
             rate_limit_reset_time |-> st.rate_limit_reset_time]
    ELSE
        LET try_symbol == symbols_to_try[i]
            called     == Append(calls, AVCall(try_symbol, "quote", avs[i]))
        IN  IF avs[i] = AVData THEN
                [result |-> [symbol |-> symbol, data_type |-> "quote",
                             alpha_vantage_symbol |-> try_symbol,
                             source |-> "Alpha Vantage", producer |-> "AV"],
                 calls |-> called,
                 rate_limited |-> st.rate_limited,
                 rate_limit_reset_time |-> st.rate_limit_reset_time]
            ELSE IF avs[i] \in ErrMsgs /\ quote_is_rate_limit(avs[i]) THEN
                LET c == FallbackCall(symbol, y)
                IN  [result |-> c.out, calls |-> Append(called, c),
                     rate_limited |-> _mark_rate_limited.rate_limited,
                     rate_limit_reset_time |->
                         _mark_rate_limited.rate_limit_reset_time]
            ELSE quote_loop(symbol, symbols_to_try, i + 1, avs, y, called, st)

get_stock_quote(symbol, avs, y) ==
    IF ~svc_enabled THEN
        [result |-> None, calls |-> <<>>,
         rate_limited |-> rate_limited,
         rate_limit_reset_time |-> rate_limit_reset_time]
    ELSE
        LET chk == _is_rate_limited(rate_limited, rate_limit_reset_time)
        IN  IF chk.limited THEN
                LET c == FallbackCall(symbol, y)
                IN  [result |-> c.out, calls |-> <<c>>,
                     rate_limited |-> chk.rate_limited,
                     rate_limit_reset_time |-> chk.rate_limit_reset_time]
            ELSE quote_loop(symbol, _get_fallback_symbols(symbol), 1, avs, y,
                            <<>>, chk)

\* the loop of get_daily_data from its i-th candidate on
RECURSIVE daily_loop(_, _, _, _, _, _)
daily_loop(symbol, symbols_to_try, i, avs, calls, st) ==
    IF i > Len(symbols_to_try) THEN
        [result |-> None, calls |-> calls,
         rate_limited |-> st.rate_limited,
         rate_limit_reset_time |-> st.rate_limit_reset_time]
    ELSE
        LET called == Append(calls, AVCall(symbols_to_try[i], "daily", avs[i]))
        IN  IF avs[i] = AVData THEN
                [result |-> [symbol |-> symbol, data_type |-> "daily",
                             rows |-> "some", producer |-> "AV"],
                 calls |-> called,
                 rate_limited |-> st.rate_limited,
                 rate_limit_reset_time |-> st.rate_limit_reset_time]
            ELSE IF avs[i] \in ErrMsgs /\ series_is_rate_limit(avs[i]) THEN
                [result |-> None, calls |-> called,
                 rate_limited |-> _mark_rate_limited.rate_limited,
                 rate_limit_reset_time |->
                     _mark_rate_limited.rate_limit_reset_time]
            ELSE daily_loop(symbol, symbols_to_try, i + 1, avs, called, st)

Service_get_daily_data(symbol, avs) ==
    IF ~svc_enabled THEN
        [result |-> None, calls |-> <<>>,
         rate_limited |-> rate_limited,
         rate_limit_reset_time |-> rate_limit_reset_time]
    ELSE daily_loop(symbol, _get_fallback_symbols(symbol), 1, avs, <<>>,
                    [rate_limited |-> rate_limited,
                     rate_limit_reset_time |-> rate_limit_reset_time])

Service_get_intraday_data(symbol, av) ==
    IF ~svc_enabled THEN
        [result |-> None, calls |-> <<>>,
         rate_limited |-> rate_limited,
         rate_limit_reset_time |-> rate_limit_reset_time]
    ELSE IF av = AVData THEN
        [result |-> [symbol |-> symbol, data_type |-> "intraday",
                     rows |-> "some", producer |-> "AV"],
         calls |-> <<AVCall(symbol, "intraday", av)>>,
         rate_limited |-> rate_limited,
         rate_limit_reset_time |-> rate_limit_reset_time]
    ELSE IF av \in ErrMsgs /\ series_is_rate_limit(av) THEN
        [result |-> None, calls |-> <<AVCall(symbol, "intraday", av)>>,
         rate_limited |-> _mark_rate_limited.rate_limited,
         rate_limit_reset_time |-> _mark_rate_limited.rate_limit_reset_time]
    ELSE
        [result |-> None, calls |-> <<AVCall(symbol, "intraday", av)>>,
         rate_limited |-> rate_limited,
         rate_limit_reset_time |-> rate_limit_reset_time]

\* the indicator functions AlphaVantageService passes on to Alpha Vantage
ServiceIndicators == {"SMA", "EMA", "RSI", "MACD", "BBANDS"}

Service_get_technical_indicators(symbol, function, av) ==
    IF ~svc_enabled THEN [result |-> None, calls |-> <<>>]
    ELSE IF upper(function) \notin ServiceIndicators THEN
        [result |-> None, calls |-> <<>>]
    ELSE IF av = AVData THEN
        [result |-> [symbol |-> symbol, data_type |-> "indicators",
                     rows |-> "some", producer |-> "AV"],
         calls |-> <<AVCall(symbol, "indicators", av)>>]
    ELSE [result |-> None, calls |-> <<AVCall(symbol, "indicators", av)>>]

-----------------------------------------------------------------------------
(* HybridDataService *)

\* the try block of _get_yahoo_quote
yahoo_quote_body(symbol, y) ==
    IF y.info = "raise" THEN Raised
    ELSE IF y.info = "empty" THEN None
    ELSE IF y.hist = "raise" THEN Raised
    ELSE IF y.hist = "empty" THEN None
    ELSE [symbol |-> symbol, data_type |-> "quote", producer |-> "YF"]

_get_yahoo_quote(symbol, y) ==
    LET r == yahoo_quote_body(symbol, y)
    IN  IF r = Raised THEN None ELSE r

\* dict.update with the two keys the merge adds
with_alpha_vantage(yf_data, av_data) ==
    [symbol |-> yf_data.symbol, data_type |-> yf_data.data_type,
     producer |-> yf_data.producer,
     alpha_vantage_data |-> av_data,
     data_sources |-> <<"Yahoo Finance", "Alpha Vantage">>]

with_yahoo_only(yf_data) ==
    [symbol |-> yf_data.symbol, data_type |-> yf_data.data_type,
     producer |-> yf_data.producer,
     data_sources |-> <<"Yahoo Finance">>]

\* y1 is what yfinance does for HybridDataService itself, avs and y2 what
\* the providers do for AlphaVantageService.get_stock_quote
Hybrid_get_stock_quote(symbol, y1, avs, y2) ==
    LET yf_data == _get_yahoo_quote(symbol, y1)
        yf_call == [p |-> "YF", sym |-> symbol, kind |-> "quote", y |-> y1,
                    out |-> yf_data]
        av      == get_stock_quote(symbol, avs, y2)
        same    == [rate_limited |-> rate_limited,
                    rate_limit_reset_time |-> rate_limit_reset_time]
    IN  IF yf_data # None THEN
            IF svc_enabled THEN
                [result |-> IF av.result # None
                            THEN with_alpha_vantage(yf_data, av.result)
                            ELSE with_yahoo_only(yf_data),
                 calls |-> <<yf_call>> \o av.calls,
                 rate_limited |-> av.rate_limited,
                 rate_limit_reset_time |-> av.rate_limit_reset_time]
            ELSE
                [result |-> with_yahoo_only(yf_data), calls |-> <<yf_call>>,
                 rate_limited |-> same.rate_limited,
                 rate_limit_reset_time |-> same.rate_limit_reset_time]
        ELSE IF svc_enabled THEN
            [result |-> av.result, calls |-> <<yf_call>> \o av.calls,
             rate_limited |-> av.rate_limited,
             rate_limit_reset_time |-> av.rate_limit_reset_time]
        ELSE
            [result |-> None, calls |-> <<yf_call>>,
             rate_limited |-> same.rate_limited,
             rate_limit_reset_time |-> same.rate_limit_reset_time]

-----------------------------------------------------------------------------
(* AngelOneService *)

\* what the login request does
LoginOutcomes == {"ok", "rejected", "http_error", "exception"}

\* what a data request does: a reply with rows, a reply without rows, a
\* reply without status or data, a reply that does not parse, an HTTP error
DataOutcomes == {"fetched", "not_fetched", "rejected", "malformed", "http_error"}

AOCall(kind, out) == [p |-> "AO", sym |-> <<>>, kind |-> kind, out |-> out]

\* a login step that never reuses the stored token
authenticate_body_always_login(login) ==
    LET same == [auth_token |-> auth_token, token_expiry |-> token_expiry,
                 auth_header |-> auth_header]
    IN  IF ~angel_enabled THEN
            [raised |-> TRUE, ok |-> FALSE, calls |-> <<>>] @@ same
        ELSE IF login \in {"http_error", "exception"} THEN
            [raised |-> TRUE, ok |-> FALSE,
             calls |-> <<AOCall("login", login)>>] @@ same
        ELSE IF login = "ok" THEN
            [raised |-> FALSE, ok |-> TRUE,
             calls |-> <<AOCall("login", login)>>,
             auth_token |-> [jwt |-> now],
             auth_header |-> [bearer |-> [jwt |-> now]],
             token_expiry |-> At(now + TokenLifetime)]
        ELSE
            [raised |-> FALSE, ok |-> FALSE,
             calls |-> <<AOCall("login", login)>>] @@ same

\* a login step that drops the stored token when the login is refused
authenticate_body_forgetting(login) ==
    LET same == [auth_token |-> auth_token, token_expiry |-> token_expiry,
                 auth_header |-> auth_header]
    IN  IF ~angel_enabled THEN
            [raised |-> TRUE, ok |-> FALSE, calls |-> <<>>] @@ same
        ELSE IF /\ auth_token # None
                /\ token_expiry # None
                /\ now < token_expiry.at THEN
            [raised |-> FALSE, ok |-> TRUE, calls |-> <<>>] @@ same
        ELSE IF login \in {"http_error", "exception"} THEN
            [raised |-> TRUE, ok |-> FALSE,
             calls |-> <<AOCall("login", login)>>] @@ same
        ELSE IF login = "ok" THEN
            [raised |-> FALSE, ok |-> TRUE,
             calls |-> <<AOCall("login", login)>>,
             auth_token |-> [jwt |-> now],
             auth_header |-> [bearer |-> [jwt |-> now]],
             token_expiry |-> At(now + TokenLifetime)]
        ELSE
            [raised |-> FALSE, ok |-> FALSE,
             calls |-> <<AOCall("login", login)>>,
             auth_token |-> None, token_expiry |-> token_expiry,
             auth_header |-> auth_header]

\* the try block of _authenticate; the fields are those it leaves behind
authenticate_body(login) ==
    LET same == [auth_token |-> auth_token, token_expiry |-> token_expiry,
                 auth_header |-> auth_header]
    IN  IF ~angel_enabled THEN
            \* __init__ returned before it set auth_token: AttributeError
            [raised |-> TRUE, ok |-> FALSE, calls |-> <<>>] @@ same
        ELSE IF /\ auth_token # None
                /\ token_expiry # None
                /\ now < token_expiry.at THEN
            [raised |-> FALSE, ok |-> TRUE, calls |-> <<>>] @@ same
        ELSE IF login \in {"http_error", "exception"} THEN
            [raised |-> TRUE, ok |-> FALSE,
             calls |-> <<AOCall("login", login)>>] @@ same
        ELSE IF login = "ok" THEN
            [raised |-> FALSE, ok |-> TRUE,
             calls |-> <<AOCall("login", login)>>,
             auth_token |-> [jwt |-> now],
             auth_header |-> [bearer |-> [jwt |-> now]],
             token_expiry |-> At(now + TokenLifetime)]
        ELSE
            [raised |-> FALSE, ok |-> FALSE,
             calls |-> <<AOCall("login", login)>>] @@ same

_authenticate(login) ==
    LET r == authenticate_body(login)
    IN  IF r.raised THEN [r EXCEPT !.raised = FALSE, !.ok = FALSE] ELSE r

\* a data operation that sends its data request whatever the login did
angel_data_call_unauthenticated(login, data, kind, record, bare) ==
    LET a == _authenticate(login)
        body ==
            [result |->
                 CASE data = "fetched"     -> record
                   [] data = "not_fetched" -> bare
                   [] data = "rejected"    -> None
                   [] OTHER                -> Raised,
             calls |-> Append(a.calls, AOCall(kind, data))]
    IN  [result |-> IF body.result = Raised THEN None ELSE body.result,
         calls |-> body.calls,
         auth_token |-> a.auth_token, token_expiry |-> a.token_expiry,
         auth_header |-> a.auth_header]

\* the part after the login that the four data operations share: kind names
\* the request, record the value built from a reply with rows, bare the
\* value built from a reply without rows
angel_data_call(login, data, kind, record, bare) ==
    LET a == _authenticate(login)
        body ==
            IF ~a.ok THEN [result |-> None, calls |-> a.calls]
            ELSE [result |->
                      CASE data = "fetched"     -> record
                        [] data = "not_fetched" -> bare
                        [] data = "rejected"    -> None
                        [] OTHER                -> Raised,
                  calls |-> Append(a.calls, AOCall(kind, data))]
    IN  [result |-> IF body.result = Raised THEN None ELSE body.result,
         calls |-> body.calls,
         auth_token |-> a.auth_token, token_expiry |-> a.token_expiry,
         auth_header |-> a.auth_header]

Angel_get_stock_quote(symbol, login, data) ==
    angel_data_call(login, data, "quote",
        [symbol |-> symbol, data_type |-> "quote",
         exchange |-> IF endswith(symbol, DotNS) THEN "NSE" ELSE "BSE",
         source |-> "Angel One", producer |-> "AO"],
        None)

get_historical_data(symbol, login, data) ==
    angel_data_call(login, data, "historical",
        [symbol |-> symbol, data_type |-> "historical", rows |-> "some",
         producer |-> "AO"],
        None)

get_indices_data(login, data) ==
    angel_data_call(login, data, "indices",
        [data_type |-> "indices", rows |-> "some",
         source |-> "Angel One", producer |-> "AO"],
        [data_type |-> "indices", rows |-> "none",
         source |-> "Angel One", producer |-> "AO"])

get_market_status(login, data) ==
    angel_data_call(login, data, "market_status",
        [data_type |-> "market_status", rows |-> "some", producer |-> "AO"],
        [data_type |-> "market_status", rows |-> "some", producer |-> "AO"])

-----------------------------------------------------------------------------
(* The Angel One endpoints of main_combined.py *)

\* what an endpoint hands to the HTTP caller: a body, or an HTTPException
Response(body) == [status_code |-> 200, body |-> body]

HTTPException(status_code, detail) ==
    [status_code |-> status_code, detail |-> detail]

\* the shape the four data endpoints share: method names the service method,
\* r is what it does when called, detail the message of the 404; invoked
\* lists the service methods the endpoint called
angel_one_endpoint(method, r, detail) ==
    IF ~angel_enabled THEN
        [response |-> HTTPException(503, "Angel One service not enabled"),
         invoked |-> <<>>, calls |-> <<>>,
         auth_token |-> auth_token, token_expiry |-> token_expiry,
         auth_header |-> auth_header]
    ELSE
        [response |-> IF ~truthy(r.result) THEN HTTPException(404, detail)
                      ELSE Response(r.result),
         invoked |-> <<method>>, calls |-> r.calls,
         auth_token |-> r.auth_token, token_expiry |-> r.token_expiry,
         auth_header |-> r.auth_header]

get_angel_one_quote(symbol, login, data) ==
    angel_one_endpoint("get_stock_quote",
        Angel_get_stock_quote(symbol, login, data), "No quote data found")

get_angel_one_historical(symbol, login, data) ==
    angel_one_endpoint("get_historical_data",
        get_historical_data(symbol, login, data), "No historical data found")

get_angel_one_indices(login, data) ==
    angel_one_endpoint("get_indices_data",
        get_indices_data(login, data), "No indices data found")

get_angel_one_market_status(login, data) ==
    angel_one_endpoint("get_market_status",
        get_market_status(login, data), "No market status data found")

-----------------------------------------------------------------------------
(* The Alpha Vantage endpoints of main_combined.py *)

\* the indicator names and periods the endpoint is asked for
IndicatorFunctions ==
    {"SMA", "EMA", "RSI", "MACD", "BBANDS", "STOCH", "ADX", "CCI"}

TimePeriods == {10, 20, 50}

\* a quote endpoint whose handler for other exceptions also takes the 404
get_alpha_vantage_quote_catching_all(symbol, av, y) ==
    LET r == get_quote(symbol, av, y)
    IN  [response |-> IF r.result = None
                      THEN HTTPException(500, "Failed to get quote")
                      ELSE Response(r.result),
         calls |-> r.calls, log |-> r.log]

\* the HTTPException raised in the try block is raised again unchanged
get_alpha_vantage_quote(symbol, av, y) ==
    LET r == get_quote(symbol, av, y)
    IN  [response |-> IF r.result = None
                      THEN HTTPException(404, "No quote data found")
                      ELSE Response(r.result),
         calls |-> r.calls, log |-> r.log]

get_alpha_vantage_indicators(symbol, function, time_period, av, y) ==
    LET r == get_technical_indicators(symbol, function, av, y)
    IN  [response |-> IF r.result = None
                      THEN HTTPException(404, "No data found")
                      ELSE Response([symbol |-> symbol,
                                     function |-> function,
                                     time_period |-> time_period,
                                     data |-> r.result]),
         calls |-> r.calls, log |-> r.log]

-----------------------------------------------------------------------------
(* CurrencyService (services/currency_service.py) and GET /currency/convert  *)

\* self.usd_to_inr_rate after construction
DefaultRate == 83

\* self.cache_duration, in seconds
cache_duration == 3600

\* a CURRENCY_API_KEY found in the environment
ApiKey == [key |-> "CURRENCY_API_KEY"]

\* the INR rates the exchange-rate provider may quote
Rates == {0, 82, 84}

\* what one request to the exchange-rate provider gives: an error, a document
\* without the INR rate, a document with it
ProviderAnswers ==
    {Raised, [INR |-> None]} \cup {[INR |-> [value |-> r]] : r \in Rates}

\* the clock counts minutes, timedelta.total_seconds of an age
seconds(minutes) == minutes * 60

\* every exception is caught in the method, a rate of zero is not a rate
_fetch_real_time_rate(answer) ==
    IF answer = Raised THEN None
    ELSE IF answer.INR # None /\ answer.INR.value # 0 THEN answer.INR
    ELSE None

\* a service that asks the provider whenever a key is configured
get_usd_to_inr_rate_refetching(cs, t, answer) ==
    IF cs.api_key # None
    THEN LET rate == _fetch_real_time_rate(answer)
         IN  IF rate # None
             THEN [value |-> rate.value,
                   cs |-> [cs EXCEPT !.usd_to_inr_rate = rate.value,
                                     !.last_update = At(t)],
                   fetches |-> <<answer>>]
             ELSE [value |-> cs.usd_to_inr_rate, cs |-> cs,
                   fetches |-> <<answer>>]
    ELSE [value |-> cs.usd_to_inr_rate, cs |-> cs, fetches |-> <<>>]

\* cs is the service's state, t the time, answer what the provider gives if
\* it is asked; the result carries the returned rate, the state left behind
\* and the answers of the fetches made
get_usd_to_inr_rate(cs, t, answer) ==
    IF cs.last_update # None /\ seconds(t - cs.last_update.at) < cache_duration
    THEN [value |-> cs.usd_to_inr_rate, cs |-> cs, fetches |-> <<>>]
    ELSE IF cs.api_key # None
    THEN LET rate == _fetch_real_time_rate(answer)
         IN  IF rate # None
             THEN [value |-> rate.value,
                   cs |-> [cs EXCEPT !.usd_to_inr_rate = rate.value,
                                     !.last_update = At(t)],
                   fetches |-> <<answer>>]
             ELSE [value |-> cs.usd_to_inr_rate, cs |-> cs,
                   fetches |-> <<answer>>]
    ELSE [value |-> cs.usd_to_inr_rate, cs |-> cs, fetches |-> <<>>]

\* the amount of the endpoint is a float, never None
convert_usd_to_inr(usd_amount, cs, t, answer) ==
    LET r == get_usd_to_inr_rate(cs, t, answer)
    IN  [value |-> usd_amount * r.value, cs |-> r.cs, fetches |-> r.fetches]

\* str(e) in the detail of the 500 is kept as the exception e itself
FailedToConvert(e) == [text |-> "Failed to convert currency", e |-> e]

\* GET /currency/convert; answer1 and answer2 are what the provider gives to
\* the first and the second fetch of the request. The HTTPException of the
\* else branch is raised inside the try block and caught by its handler of
\* Exception. formatted_amount, the text format_inr makes of converted_amount,
\* is left out of the body
convert_currency(amount, from_currency, to_currency, cs, t, answer1, answer2) ==
    IF upper(from_currency) = "USD" /\ upper(to_currency) = "INR"
    THEN LET converted == convert_usd_to_inr(amount, cs, t, answer1)
             rate == get_usd_to_inr_rate(converted.cs, t, answer2)
         IN  [response |-> Response([original_amount |-> amount,
                                     original_currency |-> from_currency,
                                     converted_amount |-> converted.value,
                                     converted_currency |-> to_currency,
                                     exchange_rate |-> rate.value,
                                     last_updated |-> t]),
              cs |-> rate.cs,
              fetches |-> converted.fetches \o rate.fetches]
    ELSE [response |->
              HTTPException(500, FailedToConvert(HTTPException(400,
                  "Only USD to INR conversion is currently supported"))),
          cs |-> cs, fetches |-> <<>>]

-----------------------------------------------------------------------------
(* RSI (services/hybrid_data_service.py, main_combined.py)                   *)

\* the float values of the computation: not-a-number, infinity, and the
\* finite values as fractions of integers
NaN == [nan |-> TRUE]

Inf == [inf |-> TRUE]

Float(num, den) == [num |-> num, den |-> den]

\* Series.diff: element i of the result, the first one is NaN
diff(prices, i) == IF i = 1 THEN NaN ELSE Float(prices[i] - prices[i - 1], 1)

\* delta.where(delta > 0, 0): NaN > 0 is false
gain(prices, i) ==
    LET delta == diff(prices, i)
    IN  IF delta # NaN /\ delta.num > 0 THEN delta.num ELSE 0

\* -delta.where(delta < 0, 0): NaN < 0 is false
loss(prices, i) ==
    LET delta == diff(prices, i)
    IN  IF delta # NaN /\ delta.num < 0 THEN 0 - delta.num ELSE 0

\* the sum of the window of a series that ends at i
RECURSIVE window_sum(_, _, _)
window_sum(series, i, window) ==
    IF window = 0 THEN 0
    ELSE series[i] + window_sum(series, i - 1, window - 1)

\* float division of two values that are not negative: no error is raised
\* for a divisor of zero
divide(a, b) ==
    IF b = 0 THEN IF a = 0 THEN NaN ELSE Inf
    ELSE Float(a, b)

\* the numerator of .rolling(window).mean() at i, the means of gain and loss
\* share the denominator window
rolling_loss(prices, i, window) ==
    window_sum([k \in 1..Len(prices) |-> loss(prices, k)], i, window)

rolling_gain(prices, i, window) ==
    window_sum([k \in 1..Len(prices) |-> gain(prices, k)], i, window)

\* element i of 100 - (100 / (1 + rs)); rolling gives NaN before the window
\* is full, 100 / inf is 0, and 100 - 100 / (1 + g / l) is 100 g / (g + l)
rsi(prices, i, window) ==
    IF i < window THEN NaN
    ELSE LET rs == divide(rolling_gain(prices, i, window),
                          rolling_loss(prices, i, window))
         IN  IF rs = NaN THEN NaN
             ELSE IF rs = Inf THEN Float(100, 1)
             ELSE Float(100 * rs.num, rs.num + rs.den)

\* main_combined._calculate_rsi: the whole series
_calculate_rsi(prices, window) ==
    [i \in 1..Len(prices) |-> rsi(prices, i, window)]

\* HybridDataService._calculate_rsi: rsi.iloc[-1], the IndexError of an empty
\* series is caught
HybridData_calculate_rsi(prices, period) ==
    IF prices = <<>> THEN None
    ELSE rsi(prices, Len(prices), period)

-----------------------------------------------------------------------------
(* The cache: models/database.py is not among the sources, get_cached_data   *)
(* and cache_data follow the cache contract of the specification (4.4)      *)

\* the cache before the first cache_data
EmptyCache == [k \in {} |-> None]

\* a lookup that never looks at the expiry
get_cached_data_ignoring_expiry(c, key) ==
    IF key \notin DOMAIN c THEN None
    ELSE c[key].value

\* get(key): absent when there is no entry or the time exceeds its expiry;
\* the entry itself is left where it is
get_cached_data(c, key) ==
    IF key \notin DOMAIN c THEN None
    ELSE IF now > c[key].expires_at THEN None
    ELSE c[key].value

\* put(key, value, ttl_minutes): the entry of the key is created or replaced
cache_data(c, key, value, expiry_minutes) ==
    [k \in DOMAIN c \cup {key} |->
        IF k = key
        THEN [value |-> value, expires_at |-> now + expiry_minutes]
        ELSE c[k]]

-----------------------------------------------------------------------------
(* main_combined.py: the cached endpoints *)

\* expiry_minutes of /stocks/{ticker}
StockTTL == 5

\* expiry_minutes of /news
NewsTTL == 15

\* expiry_minutes of /signals/{ticker}
SignalTTL == 10

\* expiry_minutes of /dashboard
DashboardTTL == 5

\* the tickers asked of /stocks and /signals, the tickers and the news limit
\* asked of /dashboard and /news
StockTickers == {AAPL}

DashboardTickers == <<AAPL, TCS_NS>>

NewsLimits == {5}

\* f"stock_{ticker}_{period}_{interval}"
StockKey(ticker, period, interval) == <<"stock", ticker, period, interval>>

\* f"news_{limit}"
NewsKey(limit) == <<"news", limit>>

\* f"signal_{ticker}"
SignalKey(ticker) == <<"signal", ticker>>

\* f"dashboard_{tickers}_{news_limit}"
DashboardKey(tickers, news_limit) == <<"dashboard", tickers, news_limit>>

\* data.dict()
dict(obj) == [obj EXCEPT !.form = "dict"]

\* StockData(**cached_data) / Signal(**cached_data) when the value is a dict
from_dict(cached_data) ==
    IF cached_data.form = "dict"
    THEN [cached_data EXCEPT !.form = "model"]
    ELSE cached_data

\* what the upstream functions may do
FetchOutcomes == {"data", "raise"}

NewsOutcomes == {"items", "empty", "raise"}

\* the list get_news keeps of what a news source returned: the dict items
validated_news(source, outcome) ==
    [list |-> IF outcome = "items"
              THEN <<[source |-> source, at |-> now]>>
              ELSE <<>>]

mock_news ==
    [list |-> <<[source |-> "System", at |-> now]>>]

\* the three things a request does that the cache contract speaks of, each
\* appended to the trace of the request
Lookup(st, ep, key) ==
    [st EXCEPT !.trace = Append(@,
        [e |-> "get", ep |-> ep, key |-> key, at |-> now,
         got |-> get_cached_data(st.cache, key),
         prior |-> IF key \in DOMAIN st.last_put THEN st.last_put[key] ELSE None,
         stored |-> key \in DOMAIN st.cache])]

Call(st, ep, fn, out) ==
    [st EXCEPT !.trace = Append(@,
        [e |-> "call", ep |-> ep, fn |-> fn, out |-> out, at |-> now])]

Put(st, ep, key, value, expiry_minutes) ==
    [cache |-> cache_data(st.cache, key, value, expiry_minutes),
     last_put |-> [k \in DOMAIN st.last_put \cup {key} |->
                      IF k = key
                      THEN [value |-> value, at |-> now, ttl |-> expiry_minutes]
                      ELSE st.last_put[k]],
     trace |-> Append(st.trace,
        [e |-> "put", ep |-> ep, key |-> key, value |-> value,
         ttl |-> expiry_minutes, at |-> now])]

\* the value the last lookup of the trace returned
cached_data(st) == st.trace[Len(st.trace)].got

\* a step of a request: the state it leaves, where it continues, its response
Step(st, pc, result) == [st |-> st, pc |-> pc, result |-> result]

\* get_stock up to its await
get_stock(st0, ticker) ==
    LET st == Lookup(st0, "stock", StockKey(ticker, "6mo", "1d"))
    IN  IF truthy(cached_data(st))
        THEN Step(st, "done", from_dict(cached_data(st)))
        ELSE Step(st, "await get_stock_data", None)

\* a get_stock that looks the key up again after the fetch and leaves an
\* entry another request stored in the meantime
get_stock_resumed_first_wins(st0, ticker, out) ==
    LET st == Call(st0, "stock", "get_stock_data", out)
        data == [kind |-> "stock", form |-> "model", ticker |-> ticker,
                 at |-> now, mock |-> FALSE]
        key == StockKey(ticker, "6mo", "1d")
    IN  IF out = "data" /\ truthy(get_cached_data(st.cache, key))
        THEN Step(st, "done", data)
        ELSE IF out = "data"
        THEN Step(Put(st, "stock", key, dict(data), StockTTL), "done", data)
        ELSE Step(st, "done", [data EXCEPT !.mock = TRUE])

\* get_stock from the return of get_stock_data
get_stock_resumed(st0, ticker, out) ==
    LET st == Call(st0, "stock", "get_stock_data", out)
        data == [kind |-> "stock", form |-> "model", ticker |-> ticker,
                 at |-> now, mock |-> FALSE]
    IN  IF out = "data"
        THEN Step(Put(st, "stock", StockKey(ticker, "6mo", "1d"),
                      dict(data), StockTTL),
                  "done", data)
        ELSE Step(st, "done", [data EXCEPT !.mock = TRUE])

\* get_news up to its await
get_news(st0, limit, recent) ==
    LET st == Lookup(st0, "news", NewsKey(limit))
        st1 == Call(st, "news", "get_recent_news", recent)
    IN  IF truthy(cached_data(st))
        THEN Step(st, "done", cached_data(st))
        ELSE IF recent # "raise"
        THEN Step(Put(st1, "news", NewsKey(limit),
                      validated_news("recent", recent), NewsTTL),
                  "done", validated_news("recent", recent))
        ELSE Step(st1, "await get_financial_news", None)

\* get_news from the return of get_financial_news
get_news_resumed(st0, limit, fin) ==
    LET st == Call(st0, "news", "get_financial_news", fin)
    IN  IF fin # "raise"
        THEN Step(Put(st, "news", NewsKey(limit),
                      validated_news("financial", fin), NewsTTL),
                  "done", validated_news("financial", fin))
        ELSE Step(Put(st, "news", NewsKey(limit), mock_news, NewsTTL),
                  "done", mock_news)

\* get_news from its call to its return
get_news_awaited(st0, limit, recent, fin) ==
    LET r == get_news(st0, limit, recent)
    IN  IF r.pc = "done" THEN r ELSE get_news_resumed(r.st, limit, fin)

\* the Signal returned when anything raised
fallback_signal(ticker) ==
    [kind |-> "signal", form |-> "model", ticker |-> ticker, at |-> now,
     fallback |-> TRUE]

\* get_signal up to its first await
get_signal(st0, ticker) ==
    LET st == Lookup(st0, "signal", SignalKey(ticker))
    IN  IF truthy(cached_data(st))
        THEN Step(st, "done", from_dict(cached_data(st)))
        ELSE Step(st, "await get_stock_data", None)

\* get_signal from the return of get_stock_data
get_signal_resumed(st0, ticker, out) ==
    LET st == Call(st0, "signal", "get_stock_data", out)
    IN  IF out = "data"
        THEN Step(st, "await get_financial_news", None)
        ELSE Step(st, "done", fallback_signal(ticker))

\* get_signal from the return of get_financial_news; generate is what
\* generate_signals does
get_signal_finished(st0, ticker, fin, generate) ==
    LET st == Call(st0, "signal", "get_financial_news", fin)
        signal_obj == [fallback_signal(ticker) EXCEPT !.fallback = FALSE]
    IN  IF fin # "raise" /\ generate = "data"
        THEN Step(Put(st, "signal", SignalKey(ticker), dict(signal_obj),
                      SignalTTL),
                  "done", signal_obj)
        ELSE Step(st, "done", fallback_signal(ticker))

\* get_dashboard up to its await
get_dashboard(st0, tickers, news_limit) ==
    LET st == Lookup(st0, "dashboard", DashboardKey(tickers, news_limit))
    IN  IF truthy(cached_data(st))
        THEN Step(st, "done", cached_data(st))
        ELSE Step(st, "await gather", None)

\* one get_stock_data call per ticker, in the order of the list
RECURSIVE stock_tasks(_, _, _, _)
stock_tasks(st, tickers, outs, i) ==
    IF i > Len(tickers) THEN st
    ELSE stock_tasks(Call(st, "dashboard", "get_stock_data", outs[i]),
                     tickers, outs, i + 1)

\* a sequential loop that stops at the first ticker whose fetch raises
RECURSIVE fetched_until_failure(_, _, _)
fetched_until_failure(tickers, outs, i) ==
    IF i > Len(tickers) THEN <<>>
    ELSE IF outs[i] = "data"
         THEN <<tickers[i]>> \o fetched_until_failure(tickers, outs, i + 1)
    ELSE <<>>

\* the tickers whose fetch returned data
RECURSIVE fetched(_, _, _)
fetched(tickers, outs, i) ==
    IF i > Len(tickers) THEN <<>>
    ELSE IF outs[i] = "data" THEN <<tickers[i]>> \o fetched(tickers, outs, i + 1)
    ELSE fetched(tickers, outs, i + 1)

\* get_dashboard from the gather to the response: first are the outcomes of
\* the gathered fetches and n1 those of the gathered get_news; when a
\* gathered fetch raised, second and n2 are the outcomes of the sequential
\* fetches and of the second get_news
get_dashboard_resumed(st0, tickers, news_limit, first, second, n1, n2) ==
    LET key == DashboardKey(tickers, news_limit)
        g == get_news_awaited(stock_tasks(st0, tickers, first, 1),
                              news_limit, n1.recent, n1.fin)
        gathered == \A i \in 1..Len(tickers) : first[i] = "data"
        f == IF gathered THEN g
             ELSE get_news_awaited(stock_tasks(g.st, tickers, second, 1),
                                   news_limit, n2.recent, n2.fin)
        stocks == IF gathered THEN tickers ELSE fetched(tickers, second, 1)
        response == [kind |-> "dashboard", stocks |-> stocks,
                     news |-> f.result, signals |-> stocks, at |-> now]
    IN  Step(Put(f.st, "dashboard", key, response, DashboardTTL),
             "done", response)

-----------------------------------------------------------------------------
(* State machine *)

\* a worker that serves no request
Idle ==
    [ep |-> "none", arg |-> None, pc |-> "idle", trace |-> <<>>,
     result |-> None]

Workers == {1, 2}

\* no request is being served
NoReq ==
    [op |-> "none", symbol |-> <<>>, function |-> "", t |-> 0,
     result |-> None, calls |-> <<>>, log |-> <<>>, prior |-> None]

Request(op, symbol, function, result, calls, log) ==
    [op |-> op, symbol |-> symbol, function |-> function, t |-> now,
     result |-> result, calls |-> calls, log |-> log, prior |-> rl_seen]

\* the candidates Alpha Vantage may be asked about in one service request
Tries(symbol) == 1..Len(_get_fallback_symbols(symbol))

\* an Alpha Vantage call of the log that raised an error naming the rate limit
IsRateLimitError(c) ==
    /\ c.p = "AV"
    /\ c.out \in ErrMsgs
    /\ contains(lower(c.out), <<"rate", "limit">>)

\* the record kept of a quote request that met a rate-limit error
Seen(op, symbol, calls) ==
    IF \E i \in 1..Len(calls) : IsRateLimitError(calls[i])
    THEN [op |-> op, symbol |-> symbol, at |-> now]
    ELSE rl_seen

Init ==
    /\ now = 0
    /\ \E key \in BOOLEAN : enabled = key /\ svc_enabled = key
    /\ rate_limited = FALSE
    /\ rate_limit_reset_time = None
    /\ angel_enabled \in BOOLEAN
    /\ auth_token = None
    /\ token_expiry = None
    /\ auth_header = None
    /\ rl_seen = None
    /\ req = NoReq
    /\ cache = EmptyCache
    /\ last_put = EmptyCache
    /\ procs = [p \in Workers |-> Idle]
    /\ usd_to_inr_rate = DefaultRate
    /\ last_update = None
    /\ api_key \in {None, ApiKey}

\* time passes between requests
Tick ==
    /\ req = NoReq
    /\ now + HalfDay <= MaxTime
    /\ now' = now + HalfDay
    /\ UNCHANGED <<cacheVars, avVars, angelVars, rl_seen, req, currencyVars>>

\* the caller takes the response
Respond ==
    /\ req # NoReq
    /\ req' = NoReq
    /\ UNCHANGED <<cacheVars, now, avVars, angelVars, rl_seen, currencyVars>>

\* AlphaVantageHybrid._get_yahoo_fallback called on its own
YahooFallback ==
    /\ req = NoReq
    /\ \E symbol \in Symbols, y \in YahooOutcomes,
          data_type \in {"quote", "daily", "intraday", "indicators", "news"} :
       \E c \in {YFCall(symbol, data_type, y)} :
          /\ req' = Request("Hybrid._get_yahoo_fallback", symbol, "",
                            c.out, <<c>>, <<>>)
          /\ UNCHANGED <<cacheVars, now, avVars, angelVars, rl_seen, currencyVars>>

HybridGetQuote ==
    /\ req = NoReq
    /\ \E symbol \in Symbols, av \in AVOutcomes, y \in YahooOutcomes :
       \E r \in {get_quote(symbol, av, y)} :
          /\ req' = Request("Hybrid.get_quote", symbol, "",
                            r.result, r.calls, r.log)
          /\ rl_seen' = Seen("Hybrid.get_quote", symbol, r.calls)
          /\ UNCHANGED <<cacheVars, now, avVars, angelVars, currencyVars>>

HybridGetDailyData ==
    /\ req = NoReq
    /\ \E symbol \in Symbols, av \in AVOutcomes, y \in YahooOutcomes :
       \E r \in {get_daily_data(symbol, av, y)} :
          /\ req' = Request("Hybrid.get_daily_data", symbol, "",
                            r.result, r.calls, r.log)
          /\ UNCHANGED <<cacheVars, now, avVars, angelVars, rl_seen, currencyVars>>

HybridGetIntradayData ==
    /\ req = NoReq
    /\ \E symbol \in Symbols, av \in AVOutcomes, y \in YahooOutcomes :
       \E r \in {get_intraday_data(symbol, av, y)} :
          /\ req' = Request("Hybrid.get_intraday_data", symbol, "",
                            r.result, r.calls, r.log)
          /\ UNCHANGED <<cacheVars, now, avVars, angelVars, rl_seen, currencyVars>>

HybridGetTechnicalIndicators ==
    /\ req = NoReq
    /\ \E symbol \in Symbols, function \in Functions,
          av \in AVOutcomes, y \in YahooOutcomes :
       \E r \in {get_technical_indicators(symbol, function, av, y)} :
          /\ req' = Request("Hybrid.get_technical_indicators", symbol,
                            function, r.result, r.calls, r.log)
          /\ UNCHANGED <<cacheVars, now, avVars, angelVars, rl_seen, currencyVars>>

ServiceGetStockQuote ==
    /\ req = NoReq
    /\ \E symbol \in ServiceSymbols, y \in YahooQuoteOutcomes :
       \E avs \in [Tries(symbol) -> QuoteAVOutcomes] :
       \E r \in {get_stock_quote(symbol, avs, y)} :
          /\ req' = Request("Service.get_stock_quote", symbol, "",
                            r.result, r.calls, <<>>)
          /\ rate_limited' = r.rate_limited
          /\ rate_limit_reset_time' = r.rate_limit_reset_time
          /\ rl_seen' = Seen("Service.get_stock_quote", symbol, r.calls)
          /\ UNCHANGED <<cacheVars, now, enabled, svc_enabled, angelVars, currencyVars>>

ServiceGetDailyData ==
    /\ req = NoReq
    /\ \E symbol \in ServiceSymbols :
       \E avs \in [Tries(symbol) -> AVOutcomes] :
       \E r \in {Service_get_daily_data(symbol, avs)} :
          /\ req' = Request("Service.get_daily_data", symbol, "",
                            r.result, r.calls, <<>>)
          /\ rate_limited' = r.rate_limited
          /\ rate_limit_reset_time' = r.rate_limit_reset_time
          /\ UNCHANGED <<cacheVars, now, enabled, svc_enabled, angelVars, rl_seen, currencyVars>>

ServiceGetIntradayData ==
    /\ req = NoReq
    /\ \E symbol \in ServiceSymbols, av \in AVOutcomes :
       \E r \in {Service_get_intraday_data(symbol, av)} :
          /\ req' = Request("Service.get_intraday_data", symbol, "",
                            r.result, r.calls, <<>>)
          /\ rate_limited' = r.rate_limited
          /\ rate_limit_reset_time' = r.rate_limit_reset_time
          /\ UNCHANGED <<cacheVars, now, enabled, svc_enabled, angelVars, rl_seen, currencyVars>>

ServiceGetTechnicalIndicators ==
    /\ req = NoReq
    /\ \E symbol \in ServiceSymbols, function \in Functions,
          av \in AVOutcomes :
       \E r \in {Service_get_technical_indicators(symbol, function, av)} :
          /\ req' = Request("Service.get_technical_indicators", symbol,
                            function, r.result, r.calls, <<>>)
          /\ UNCHANGED <<cacheVars, now, avVars, angelVars, rl_seen, currencyVars>>

HybridDataGetStockQuote ==
    /\ req = NoReq
    /\ \E symbol \in HybridDataSymbols, y1 \in YahooQuoteOutcomes,
          y2 \in YahooQuoteOutcomes :
       \E avs \in [Tries(symbol) -> QuoteAVOutcomes] :
       \E r \in {Hybrid_get_stock_quote(symbol, y1, avs, y2)} :
          /\ req' = Request("HybridData.get_stock_quote", symbol, "",
                            r.result, r.calls, <<>>)
          /\ rate_limited' = r.rate_limited
          /\ rate_limit_reset_time' = r.rate_limit_reset_time
          /\ UNCHANGED <<cacheVars, now, enabled, svc_enabled, angelVars, rl_seen, currencyVars>>

AngelStep(op, symbol, r) ==
    /\ req' = Request(op, symbol, "", r.result, r.calls, <<>>)
    /\ auth_token' = r.auth_token
    /\ token_expiry' = r.token_expiry
    /\ auth_header' = r.auth_header
    /\ UNCHANGED <<cacheVars, now, avVars, angel_enabled, rl_seen, currencyVars>>

AngelGetStockQuote ==
    /\ req = NoReq
    /\ \E symbol \in Symbols, login \in LoginOutcomes, data \in DataOutcomes :
       \E r \in {Angel_get_stock_quote(symbol, login, data)} :
          AngelStep("Angel.get_stock_quote", symbol, r)

AngelGetHistoricalData ==
    /\ req = NoReq
    /\ \E symbol \in Symbols, login \in LoginOutcomes, data \in DataOutcomes :
       \E r \in {get_historical_data(symbol, login, data)} :
          AngelStep("Angel.get_historical_data", symbol, r)

AngelGetIndicesData ==
    /\ req = NoReq
    /\ \E login \in LoginOutcomes, data \in DataOutcomes :
       \E r \in {get_indices_data(login, data)} :
          AngelStep("Angel.get_indices_data", <<>>, r)

AngelGetMarketStatus ==
    /\ req = NoReq
    /\ \E login \in LoginOutcomes, data \in DataOutcomes :
       \E r \in {get_market_status(login, data)} :
          AngelStep("Angel.get_market_status", <<>>, r)

AngelEndpoint(op, symbol, r) ==
    /\ req' = Request(op, symbol, "", r.response, r.calls, r.invoked)
    /\ auth_token' = r.auth_token
    /\ token_expiry' = r.token_expiry
    /\ auth_header' = r.auth_header
    /\ UNCHANGED <<cacheVars, now, avVars, angel_enabled, rl_seen, currencyVars>>

GetAngelOneQuote ==
    /\ req = NoReq
    /\ \E symbol \in Symbols, login \in LoginOutcomes, data \in DataOutcomes :
       \E r \in {get_angel_one_quote(symbol, login, data)} :
          AngelEndpoint("GET /angel-one/quote", symbol, r)

GetAngelOneHistorical ==
    /\ req = NoReq
    /\ \E symbol \in Symbols, login \in LoginOutcomes, data \in DataOutcomes :
       \E r \in {get_angel_one_historical(symbol, login, data)} :
          AngelEndpoint("GET /angel-one/historical", symbol, r)

GetAngelOneIndices ==
    /\ req = NoReq
    /\ \E login \in LoginOutcomes, data \in DataOutcomes :
       \E r \in {get_angel_one_indices(login, data)} :
          AngelEndpoint("GET /angel-one/indices", <<>>, r)

GetAngelOneMarketStatus ==
    /\ req = NoReq
    /\ \E login \in LoginOutcomes, data \in DataOutcomes :
       \E r \in {get_angel_one_market_status(login, data)} :
          AngelEndpoint("GET /angel-one/market-status", <<>>, r)

GetAlphaVantageQuote ==
    /\ req = NoReq
    /\ \E symbol \in Symbols, av \in AVOutcomes, y \in YahooOutcomes :
       \E r \in {get_alpha_vantage_quote(symbol, av, y)} :
          /\ req' = Request("GET /alpha-vantage/quote", symbol, "",
                            r.response, r.calls, r.log)
          /\ UNCHANGED <<cacheVars, now, avVars, angelVars, rl_seen, currencyVars>>

GetAlphaVantageIndicators ==
    /\ req = NoReq
    /\ \E symbol \in Symbols, function \in IndicatorFunctions,
          time_period \in TimePeriods,
          av \in AVOutcomes, y \in YahooOutcomes :
       \E r \in {get_alpha_vantage_indicators(symbol, function, time_period,
                                              av, y)} :
          /\ req' = Request("GET /alpha-vantage/indicators", symbol,
                            function, r.response, r.calls, r.log)
          /\ UNCHANGED <<cacheVars, now, avVars, angelVars, rl_seen, currencyVars>>

\* a function of the symbol mapper or the resolver called on its own
SymbolCall(op, symbol, value) ==
    /\ req' = Request(op, symbol, "", [value |-> value], <<>>, <<>>)
    /\ UNCHANGED <<cacheVars, now, avVars, angelVars, rl_seen, currencyVars>>

MapperIsIndianSymbol ==
    /\ req = NoReq
    /\ \E symbol \in MapperSymbols :
          SymbolCall("Mapper.is_indian_symbol", symbol,
                     is_indian_symbol(symbol))

ResolverIsIndianSymbol ==
    /\ req = NoReq
    /\ \E symbol \in MapperSymbols :
          SymbolCall("Hybrid._is_indian_symbol", symbol,
                     _is_indian_symbol(symbol))

ConvertForAlphaVantage ==
    /\ req = NoReq
    /\ \E symbol \in MapperSymbols :
          SymbolCall("Mapper.convert_for_alpha_vantage", symbol,
                     convert_for_alpha_vantage(symbol))

GetAlphaVantageFallbackSymbols ==
    /\ req = NoReq
    /\ \E symbol \in MapperSymbols :
          SymbolCall("Mapper.get_alpha_vantage_fallback_symbols", symbol,
                     get_alpha_vantage_fallback_symbols(symbol))

\* the cache as worker p finds it, with the trace of p's request so far
St(p) == [cache |-> cache, last_put |-> last_put, trace |-> procs[p].trace]

\* a request that begins starts its trace
Begin == [cache |-> cache, last_put |-> last_put, trace |-> <<>>]

\* worker p's request took the step r
Commit(p, ep, arg, r) ==
    /\ cache' = r.st.cache
    /\ last_put' = r.st.last_put
    /\ procs' = [procs EXCEPT ![p] =
                    [ep |-> ep, arg |-> arg, pc |-> r.pc,
                     trace |-> r.st.trace, result |-> r.result]]
    /\ UNCHANGED <<now, avVars, angelVars, rl_seen, req, currencyVars>>

\* the request of worker p waits in endpoint ep at pc
Awaits(p, ep, pc) == procs[p].ep = ep /\ procs[p].pc = pc

\* time passes, also while requests wait
Elapse ==
    /\ now + StockTTL <= MaxCacheTime
    /\ now' = now + StockTTL
    /\ UNCHANGED <<avVars, angelVars, rl_seen, req, cacheVars, currencyVars>>

\* the response of worker p's request is sent
Finish(p) ==
    /\ procs[p].pc = "done"
    /\ procs' = [procs EXCEPT ![p] = Idle]
    /\ UNCHANGED <<now, avVars, angelVars, rl_seen, req, cache, last_put, currencyVars>>

GetStock(p) ==
    /\ procs[p].pc = "idle"
    /\ \E ticker \in StockTickers :
          Commit(p, "stock", [ticker |-> ticker], get_stock(Begin, ticker))

GetStockResumed(p) ==
    /\ Awaits(p, "stock", "await get_stock_data")
    /\ \E out \in FetchOutcomes :
          Commit(p, "stock", procs[p].arg,
                 get_stock_resumed(St(p), procs[p].arg.ticker, out))

GetNews(p) ==
    /\ procs[p].pc = "idle"
    /\ \E limit \in NewsLimits, recent \in NewsOutcomes :
          Commit(p, "news", [limit |-> limit], get_news(Begin, limit, recent))

GetNewsResumed(p) ==
    /\ Awaits(p, "news", "await get_financial_news")
    /\ \E fin \in NewsOutcomes :
          Commit(p, "news", procs[p].arg,
                 get_news_resumed(St(p), procs[p].arg.limit, fin))

GetSignal(p) ==
    /\ procs[p].pc = "idle"
    /\ \E ticker \in StockTickers :
          Commit(p, "signal", [ticker |-> ticker], get_signal(Begin, ticker))

GetSignalResumed(p) ==
    /\ Awaits(p, "signal", "await get_stock_data")
    /\ \E out \in FetchOutcomes :
          Commit(p, "signal", procs[p].arg,
                 get_signal_resumed(St(p), procs[p].arg.ticker, out))

GetSignalFinished(p) ==
    /\ Awaits(p, "signal", "await get_financial_news")
    /\ \E fin \in NewsOutcomes, generate \in FetchOutcomes :
          Commit(p, "signal", procs[p].arg,
                 get_signal_finished(St(p), procs[p].arg.ticker, fin, generate))

GetDashboard(p) ==
    /\ procs[p].pc = "idle"
    /\ \E news_limit \in NewsLimits :
          Commit(p, "dashboard",
                 [tickers |-> DashboardTickers, news_limit |-> news_limit],
                 get_dashboard(Begin, DashboardTickers, news_limit))

\* the outcomes of one get_news: what get_financial_news does matters only
\* when get_recent_news raised
NewsRuns ==
    {n \in [recent : NewsOutcomes, fin : NewsOutcomes] :
        n.recent # "raise" => n.fin = "items"}

GetDashboardResumed(p) ==
    /\ Awaits(p, "dashboard", "await gather")
    /\ \E first \in [1..Len(procs[p].arg.tickers) -> FetchOutcomes],
          n1 \in NewsRuns :
       \E second \in [1..Len(procs[p].arg.tickers) -> FetchOutcomes],
          n2 \in NewsRuns :
          /\ (\A i \in DOMAIN first : first[i] = "data") =>
                (second = first /\ n2 = n1)
          /\ Commit(p, "dashboard", procs[p].arg,
                    get_dashboard_resumed(St(p), procs[p].arg.tickers,
                                          procs[p].arg.news_limit,
                                          first, second, n1, n2))

\* the amounts and the currency codes asked for
Amounts == {0, 1, 100}

FromCurrencies == {"USD", "usd", "EUR", "INR"}

ToCurrencies == {"INR", "inr", "USD"}

\* half of cache_duration, in minutes
HalfHour == (cache_duration \div 60) \div 2

\* the state of the currency service
CurrencyState ==
    [usd_to_inr_rate |-> usd_to_inr_rate, last_update |-> last_update,
     api_key |-> api_key]

\* a request served with its arguments kept: args are the arguments, calls
\* the provider calls it made
Served(op, args, result, fetches) ==
    [op |-> op, symbol |-> <<>>, function |-> "", t |-> now,
     result |-> result, calls |-> fetches, log |-> <<>>, prior |-> rl_seen,
     args |-> args]

\* time passes between the requests of the currency service
Wait ==
    /\ req = NoReq
    /\ now + HalfHour <= MaxCurrencyTime
    /\ now' = now + HalfHour
    /\ UNCHANGED <<cacheVars, avVars, angelVars, rl_seen, req, currencyVars>>

GetUsdToInrRate ==
    /\ req = NoReq
    /\ \E answer \in ProviderAnswers :
          \E r \in {get_usd_to_inr_rate(CurrencyState, now, answer)} :
              /\ req' = Served("Currency.get_usd_to_inr_rate", <<>>,
                                        [value |-> r.value], r.fetches)
              /\ usd_to_inr_rate' = r.cs.usd_to_inr_rate
              /\ last_update' = r.cs.last_update
    /\ UNCHANGED <<cacheVars, now, avVars, angelVars, rl_seen, api_key>>

ConvertCurrency ==
    /\ req = NoReq
    /\ \E amount \in Amounts, from_currency \in FromCurrencies,
          to_currency \in ToCurrencies, answer1, answer2 \in ProviderAnswers :
          \E r \in {convert_currency(amount, from_currency, to_currency,
                                     CurrencyState, now, answer1, answer2)} :
              /\ req' = Served("GET /currency/convert",
                                        [amount |-> amount,
                                         from_currency |-> from_currency,
                                         to_currency |-> to_currency],
                                        r.response, r.fetches)
              /\ usd_to_inr_rate' = r.cs.usd_to_inr_rate
              /\ last_update' = r.cs.last_update
    /\ UNCHANGED <<cacheVars, now, avVars, angelVars, rl_seen, api_key>>

\* the closing prices, the lengths of the series and the windows asked for
PriceLevels == {1, 2}

Periods == {14}

PriceSeries == UNION {[1..n -> PriceLevels] : n \in 13..MaxPrices}

HybridDataCalculateRsi ==
    /\ req = NoReq
    /\ \E prices \in PriceSeries, period \in Periods :
          req' = Served("HybridData._calculate_rsi",
                        [prices |-> prices, period |-> period],
                        HybridData_calculate_rsi(prices, period), <<>>)
    /\ UNCHANGED <<cacheVars, now, avVars, angelVars, rl_seen, currencyVars>>

MainCalculateRsi ==
    /\ req = NoReq
    /\ \E prices \in PriceSeries, window \in Periods :
          req' = Served("Main._calculate_rsi",
                        [prices |-> prices, period |-> window],
                        _calculate_rsi(prices, window), <<>>)
    /\ UNCHANGED <<cacheVars, now, avVars, angelVars, rl_seen, currencyVars>>

\* the resolver on its own
NextResolver ==
    \/ Respond
    \/ HybridGetQuote
    \/ HybridGetDailyData
    \/ HybridGetIntradayData
    \/ HybridGetTechnicalIndicators

SpecResolver == Init /\ [][NextResolver]_vars

\* the quote operations and the clock
Next ==
    \/ Tick
    \/ Respond
    \/ HybridGetQuote
    \/ ServiceGetStockQuote
    \/ HybridDataGetStockQuote

Spec == Init /\ [][Next]_vars

\* the provider adapters and the clock
NextAdapters ==
    \/ Tick
    \/ Respond
    \/ YahooFallback
    \/ ServiceGetStockQuote
    \/ ServiceGetDailyData
    \/ ServiceGetIntradayData
    \/ ServiceGetTechnicalIndicators
    \/ AngelGetStockQuote
    \/ AngelGetHistoricalData
    \/ AngelGetIndicesData
    \/ AngelGetMarketStatus

SpecAdapters == Init /\ [][NextAdapters]_vars

\* the Angel One endpoints and the clock
NextAngel ==
    \/ Tick
    \/ Respond
    \/ GetAngelOneQuote
    \/ GetAngelOneHistorical
    \/ GetAngelOneIndices
    \/ GetAngelOneMarketStatus

SpecAngel == Init /\ [][NextAngel]_vars

\* the Alpha Vantage endpoints
NextAlphaVantage ==
    \/ Respond
    \/ GetAlphaVantageQuote
    \/ GetAlphaVantageIndicators

SpecAlphaVantage == Init /\ [][NextAlphaVantage]_vars

\* the symbol mapper and the candidate loop of the service
NextSymbols ==
    \/ Tick
    \/ Respond
    \/ MapperIsIndianSymbol
    \/ ResolverIsIndianSymbol
    \/ ConvertForAlphaVantage
    \/ GetAlphaVantageFallbackSymbols
    \/ ServiceGetStockQuote

SpecSymbols == Init /\ [][NextSymbols]_vars

\* the currency service, its endpoint and the clock
NextCurrency ==
    \/ Wait
    \/ Respond
    \/ GetUsdToInrRate
    \/ ConvertCurrency

SpecCurrency == Init /\ [][NextCurrency]_vars

InitCache == Init /\ enabled /\ angel_enabled

\* the two RSI functions applied to the price series
NextRsi ==
    \/ Respond
    \/ HybridDataCalculateRsi
    \/ MainCalculateRsi

SpecRsi == InitCache /\ [][NextRsi]_vars

\* /stocks, /news and /signals, their requests served one after the other,
\* and the clock
NextCache ==
    \/ Elapse
    \/ Finish(1)
    \/ GetStock(1)
    \/ GetStockResumed(1)
    \/ GetNews(1)
    \/ GetNewsResumed(1)
    \/ GetSignal(1)
    \/ GetSignalResumed(1)
    \/ GetSignalFinished(1)

SpecCache == InitCache /\ [][NextCache]_vars

\* /dashboard and the /news it calls, their requests served one after the
\* other, and the clock
NextDashboard ==
    \/ Elapse
    \/ Finish(1)
    \/ GetNews(1)
    \/ GetNewsResumed(1)
    \/ GetDashboard(1)
    \/ GetDashboardResumed(1)

SpecDashboard == InitCache /\ [][NextDashboard]_vars

\* /stocks served by two workers whose requests interleave at the await
NextRace ==
    \/ Elapse
    \/ \E p \in Workers :
          \/ Finish(p)
          \/ GetStock(p)
          \/ GetStockResumed(p)

SpecRace == InitCache /\ [][NextRace]_vars

-----------------------------------------------------------------------------
(* Properties *)

\* the symbols of the model that end in .NS or .BSE, and the others
IndianSymbols == {TCS_NS, ZZ_BSE}

USSymbols == {AAPL, BSE}

HybridOps ==
    {"Hybrid.get_quote", "Hybrid.get_daily_data", "Hybrid.get_intraday_data",
     "Hybrid.get_technical_indicators"}

KindOf(op) ==
    CASE op = "Hybrid.get_quote"                -> "quote"
      [] op = "Hybrid.get_daily_data"           -> "daily"
      [] op = "Hybrid.get_intraday_data"        -> "intraday"
      [] op = "Hybrid.get_technical_indicators" -> "indicators"
      [] OTHER                                  -> "none"

\* the providers a request called, in order
Providers(calls) == [i \in 1..Len(calls) |-> calls[i].p]

\* the request was answered by the Yahoo Finance call that ended it
AnsweredByYahoo(r) ==
    /\ Len(r.calls) >= 1
    /\ r.calls[Len(r.calls)].p = "YF"
    /\ r.calls[Len(r.calls)].sym = r.symbol
    /\ r.result = r.calls[Len(r.calls)].out

\* C1: for a symbol ending in .NS or .BSE every resolver request (quote,
\* daily, intraday, indicators) makes exactly one provider call, to the
\* Yahoo Finance adapter for that symbol and kind, never one to Alpha
\* Vantage, and returns what the adapter returned, a record or None.
C1_IndianSymbolsUseYahooOnly ==
    (req.op \in HybridOps /\ req.symbol \in IndianSymbols) =>
        /\ Providers(req.calls) = <<"YF">>
        /\ req.calls[1].sym = req.symbol
        /\ req.calls[1].kind = KindOf(req.op)
        /\ req.result = req.calls[1].out

\* an indicator request for a .BSE symbol answered while Alpha Vantage is enabled
C1_Witness ==
    /\ req.op = "Hybrid.get_technical_indicators"
    /\ req.symbol = ZZ_BSE
    /\ enabled
    /\ req.result # None
    /\ Providers(req.calls) = <<"YF">>

\* C2: when Alpha Vantage returns a non-empty quote for a US symbol, the
\* resolver's quote names Alpha Vantage as its source and the request makes
\* no Yahoo Finance call.
C2_PrimaryQuoteIsFinal ==
    ( /\ req.op = "Hybrid.get_quote"
      /\ req.symbol \in USSymbols
      /\ Len(req.calls) >= 1
      /\ req.calls[1].p = "AV"
      /\ req.calls[1].out = AVData ) =>
        /\ req.result # None
        /\ req.result.source = "Alpha Vantage"
        /\ req.result.symbol = req.symbol
        /\ \A i \in 1..Len(req.calls) : req.calls[i].p # "YF"

\* a quote for AAPL delivered by Alpha Vantage
C2_Witness ==
    /\ req.op = "Hybrid.get_quote"
    /\ req.symbol = AAPL
    /\ Providers(req.calls) = <<"AV">>
    /\ req.calls[1].out = AVData
    /\ req.result # None

QuoteRequestOps == {"Hybrid.get_quote", "Service.get_stock_quote"}

\* C3: when an Alpha Vantage call of a quote request raises an error whose
\* text contains "rate limit" in any letter case, the request leaves the
\* rate-limited flag set with a reset time 24 hours after the request, and
\* its result is the one the Yahoo Finance fallback returned.
C3_RateLimitErrorSetsFlag ==
    ( /\ req.op \in QuoteRequestOps
      /\ \E i \in 1..Len(req.calls) : IsRateLimitError(req.calls[i]) ) =>
        /\ rate_limited = TRUE
        /\ rate_limit_reset_time = At(req.t + RateLimitCooldown)
        /\ AnsweredByYahoo(req)

\* C4: a quote request for a US symbol made less than 24 hours after a quote
\* request of the same operation for the same symbol met a rate-limit error
\* makes no Alpha Vantage call and is answered by the Yahoo Finance fallback.
C4_CooldownSkipsPrimary ==
    ( /\ req.op \in QuoteRequestOps
      /\ req.symbol \in USSymbols
      /\ req.prior # None
      /\ req.prior.op = req.op
      /\ req.prior.symbol = req.symbol
      /\ req.t < req.prior.at + RateLimitCooldown ) =>
        /\ \A i \in 1..Len(req.calls) : req.calls[i].p # "AV"
        /\ AnsweredByYahoo(req)

\* C5: a resolver request calls Alpha Vantage at most once and Yahoo
\* Finance at most once, Yahoo Finance never before Alpha Vantage: the
\* providers called are none, one of the two, or Alpha Vantage then Yahoo
\* Finance.
C5_CallDepthAtMostTwo ==
    req.op \in HybridOps =>
        Providers(req.calls) \in {<<>>, <<"AV">>, <<"YF">>, <<"AV", "YF">>}

\* a daily request that went to Alpha Vantage and then to Yahoo Finance
C5_Witness ==
    /\ req.op = "Hybrid.get_daily_data"
    /\ Providers(req.calls) = <<"AV", "YF">>
    /\ req.calls[1].out = E_RateLimit

\* C6: when the Alpha Vantage call of a resolver request for a US symbol
\* raises (rate limit or not) or returns empty data, the request calls the
\* Yahoo Finance adapter once, with the requested symbol and kind, and
\* returns what the adapter returned: None when Yahoo Finance has no data.
C6_FailureFallsBackToYahoo ==
    ( /\ req.op \in HybridOps
      /\ req.symbol \in USSymbols
      /\ Len(req.calls) >= 1
      /\ req.calls[1].p = "AV"
      /\ req.calls[1].out # AVData ) =>
        /\ Providers(req.calls) = <<"AV", "YF">>
        /\ req.calls[2].sym = req.symbol
        /\ req.calls[2].kind = KindOf(req.op)
        /\ req.result = req.calls[2].out

\* an intraday request answered by Yahoo Finance after Alpha Vantage timed out
C6_Witness ==
    /\ req.op = "Hybrid.get_intraday_data"
    /\ req.symbol = AAPL
    /\ Providers(req.calls) = <<"AV", "YF">>
    /\ req.calls[1].out = E_Timeout
    /\ req.result # None
    /\ req.result.producer = "YF"

QuoteOps ==
    {"Hybrid.get_quote", "Service.get_stock_quote", "Angel.get_stock_quote",
     "HybridData.get_stock_quote"}

\* the provider a source tag names
ProviderNamed(source) ==
    CASE source = "Alpha Vantage"                          -> "AV"
      [] source = "Yahoo Finance (Hybrid Fallback)"        -> "YF"
      [] source = "Yahoo Finance (Alpha Vantage Fallback)" -> "YF"
      [] source = "Angel One"                              -> "AO"
      [] OTHER                                             -> "nobody"

\* C7: every quote a quote operation returns has a source field, and the
\* field names the provider that produced the quote.
C7_QuoteNamesItsSource ==
    (req.op \in QuoteOps /\ req.result # None) =>
        /\ "source" \in DOMAIN req.result
        /\ ProviderNamed(req.result.source) = req.result.producer

AdapterOps ==
    {"Hybrid._get_yahoo_fallback",
     "Service.get_stock_quote", "Service.get_daily_data",
     "Service.get_intraday_data", "Service.get_technical_indicators",
     "Angel.get_stock_quote", "Angel.get_historical_data",
     "Angel.get_indices_data", "Angel.get_market_status"}

\* C8: whatever the provider does, an adapter operation returns a record or
\* None: no exception leaves it, neither from the operation itself nor from
\* a Yahoo Finance fallback it called.
C8_AdaptersNeverRaise ==
    req.op \in AdapterOps =>
        /\ req.result # Raised
        /\ \A i \in 1..Len(req.calls) :
              req.calls[i].p = "YF" => req.calls[i].out # Raised

\* the Yahoo Finance adapter returned None although yfinance raised
C8_Witness ==
    /\ req.op = "Hybrid._get_yahoo_fallback"
    /\ req.calls[1].kind = "daily"
    /\ req.calls[1].y.hist = "raise"
    /\ req.result = None

\* C9: a lookup of a key made before the expiry time of the last put of
\* that key (put time plus ttl) returns the value that was put; a lookup
\* made after that time returns None although the entry is still stored.
C9_PutThenGet ==
    \A p \in Workers : \A i \in 1..Len(procs[p].trace) :
        ( /\ procs[p].trace[i].e = "get"
          /\ procs[p].trace[i].prior # None ) =>
            LET g == procs[p].trace[i]
                expiry == g.prior.at + g.prior.ttl
            IN  /\ g.at < expiry => g.got = g.prior.value
                /\ g.at > expiry => (g.got = None /\ g.stored)

\* a lookup found nothing although the entry, expired, was still stored
C9_Witness ==
    \E p \in Workers : \E i \in 1..Len(procs[p].trace) :
        /\ procs[p].trace[i].e = "get"
        /\ procs[p].trace[i].prior # None
        /\ procs[p].trace[i].at >
              procs[p].trace[i].prior.at + procs[p].trace[i].prior.ttl
        /\ procs[p].trace[i].got = None
        /\ procs[p].trace[i].stored

CachedEndpoints == {"stock", "news", "signal", "dashboard"}

EndpointTTL(ep) ==
    CASE ep = "stock"     -> 5
      [] ep = "news"      -> 15
      [] ep = "signal"    -> 10
      [] ep = "dashboard" -> 5

EndpointKey(ep, arg) ==
    CASE ep = "stock"     -> <<"stock", arg.ticker, "6mo", "1d">>
      [] ep = "news"      -> <<"news", arg.limit>>
      [] ep = "signal"    -> <<"signal", arg.ticker>>
      [] ep = "dashboard" -> <<"dashboard", arg.tickers, arg.news_limit>>

\* the response is the cached value, as it is or rebuilt from its dict
Returned(result, got) ==
    IF "form" \in DOMAIN got
    THEN [result EXCEPT !.form = got.form] = got
    ELSE result = got

\* C10: a request of a cached endpoint begins with the lookup of its key;
\* when a lookup returns a value, no provider is called for that endpoint
\* afterwards and the request that made it first returns that value; every
\* put comes after a lookup of the same key that returned nothing and after
\* a provider call, and carries the TTL of its endpoint; a request that
\* missed calls a provider before it ends.
C10_LookupThenProviderThenPut ==
    \A p \in Workers :
        procs[p].ep \in CachedEndpoints =>
            LET r == procs[p]
                n == Len(r.trace)
            IN  /\ n >= 1
                /\ r.trace[1].e = "get"
                /\ r.trace[1].ep = r.ep
                /\ r.trace[1].key = EndpointKey(r.ep, r.arg)
                /\ r.trace[1].got # None =>
                      (n = 1 /\ r.pc = "done" /\ Returned(r.result, r.trace[1].got))
                /\ \A i \in 1..n :
                      (r.trace[i].e = "get" /\ r.trace[i].got # None) =>
                          \A j \in (i + 1)..n :
                              ~(r.trace[j].e = "call" /\ r.trace[j].ep = r.trace[i].ep)
                /\ \A i \in 1..n :
                      r.trace[i].e = "put" =>
                          /\ r.trace[i].ttl = EndpointTTL(r.trace[i].ep)
                          /\ \E j \in 1..(i - 1) :
                                /\ r.trace[j].e = "get"
                                /\ r.trace[j].key = r.trace[i].key
                                /\ r.trace[j].got = None
                          /\ \E j \in 1..(i - 1) :
                                /\ r.trace[j].e = "call"
                                /\ r.trace[j].ep = r.trace[i].ep
                /\ (r.pc = "done" /\ r.trace[1].got = None) =>
                      \E j \in 2..n : r.trace[j].e = "call"

\* C11: two requests for the same key can both find it missing and both
\* fetch upstream; each request that missed makes its own provider call
\* (no coalescing) and, when the call returned data, its own put; when both
\* have put, the entry of the key is the one of the later put: its value,
\* and its expiry counted from that put.
C11_LaterPutWins ==
    \A p \in Workers, q \in Workers :
        /\ ( /\ procs[p].pc = "done"
             /\ procs[p].trace[1].got = None ) =>
                /\ Len(procs[p].trace) >= 2
                /\ procs[p].trace[2].e = "call"
                /\ procs[p].trace[2].out = "data" =>
                      /\ Len(procs[p].trace) = 3
                      /\ procs[p].trace[3].e = "put"
                      /\ procs[p].trace[3].key = procs[p].trace[1].key
        /\ \A i \in 1..Len(procs[p].trace), j \in 1..Len(procs[q].trace) :
              ( /\ p # q
                /\ procs[p].trace[i].e = "put"
                /\ procs[q].trace[j].e = "put"
                /\ procs[p].trace[i].key = procs[q].trace[j].key
                /\ procs[p].trace[i].at < procs[q].trace[j].at ) =>
                    /\ procs[q].trace[j].key \in DOMAIN cache
                    /\ cache[procs[q].trace[j].key] =
                          [value |-> procs[q].trace[j].value,
                           expires_at |-> procs[q].trace[j].at
                                             + procs[q].trace[j].ttl]

\* both requests missed the same key before either put, both fetched, and
\* the second put came later than the first
C11_Witness ==
    /\ procs[1].pc = "done"
    /\ procs[2].pc = "done"
    /\ Len(procs[1].trace) = 3
    /\ Len(procs[2].trace) = 3
    /\ procs[1].trace[1].key = procs[2].trace[1].key
    /\ procs[1].trace[1].got = None
    /\ procs[2].trace[1].got = None
    /\ ~procs[1].trace[1].stored
    /\ ~procs[2].trace[1].stored
    /\ procs[1].trace[2].e = "call"
    /\ procs[2].trace[2].e = "call"
    /\ procs[1].trace[3].e = "put"
    /\ procs[2].trace[3].e = "put"
    /\ procs[1].trace[3].at < procs[2].trace[3].at
    /\ cache[procs[1].trace[1].key].value = procs[2].trace[3].value
    /\ Cardinality(DOMAIN cache) = 1

AngelOps ==
    {"Angel.get_stock_quote", "Angel.get_historical_data",
     "Angel.get_indices_data", "Angel.get_market_status"}

AngelEndpoints ==
    {"GET /angel-one/quote", "GET /angel-one/historical",
     "GET /angel-one/indices", "GET /angel-one/market-status"}

\* the step is an endpoint request that makes an Angel One data call
AngelCall == req' # req /\ req'.op \in AngelEndpoints /\ req'.log # <<>>

\* the logins and the data requests among the calls of a request
Logins(r) == {i \in 1..Len(r.calls) : r.calls[i].kind = "login"}

DataRequests(r) == {i \in 1..Len(r.calls) : r.calls[i].kind # "login"}

LoginOk(r) == \E i \in Logins(r) : r.calls[i].out = "ok"

\* no token is stored or the time is not before the stored expiry
NoValidToken ==
    auth_token = None \/ token_expiry = None \/ now >= token_expiry.at

\* C12: every Angel One data call makes one login when no token is stored
\* or the time is not before the stored expiry, and none otherwise; a
\* successful login stores the token and an expiry 23 hours later, and no
\* other call changes them, so the calls of the next 23 hours make no login.
C12_LoginIffNoValidToken ==
    [][AngelCall =>
          /\ Cardinality(Logins(req')) = (IF NoValidToken THEN 1 ELSE 0)
          /\ LoginOk(req') =>
                /\ auth_token' = [jwt |-> now]
                /\ token_expiry' = At(now + TokenLifetime)
          /\ ~LoginOk(req') => UNCHANGED <<auth_token, token_expiry>>]_vars

\* a data call made after the login, inside its 23 hours, that made no login
C12_Witness ==
    /\ req.op \in AngelEndpoints
    /\ req.log # <<>>
    /\ auth_token # None
    /\ req.t > auth_token.jwt
    /\ req.t < token_expiry.at
    /\ token_expiry = At(auth_token.jwt + TokenLifetime)
    /\ Logins(req) = {}
    /\ DataRequests(req) # {}

\* the step is a call of one of the four data methods of the service
AngelDataCall == req' # req /\ req'.op \in AngelOps

\* C13: a data call whose login fails sends no data request, reports absent
\* and leaves the service without a valid token, so that every later data
\* call logs in again; the service stays without a valid token until a
\* login succeeds, and the call whose login succeeds sends its data request.
C13_FailedLoginReportsAbsent ==
    [][/\ (AngelDataCall /\ Logins(req') # {} /\ ~LoginOk(req')) =>
             /\ DataRequests(req') = {}
             /\ req'.result = None
             /\ NoValidToken'
       /\ (AngelDataCall /\ angel_enabled /\ NoValidToken) =>
             Logins(req') # {}
       /\ (NoValidToken /\ ~(AngelDataCall /\ LoginOk(req'))) => NoValidToken'
       /\ (AngelDataCall /\ LoginOk(req')) => DataRequests(req') # {}]_vars

\* a data call after the stored token expired, whose login failed
C13_Witness ==
    /\ req.op \in AngelOps
    /\ auth_token # None
    /\ req.t >= token_expiry.at
    /\ Logins(req) # {}
    /\ ~LoginOk(req)
    /\ DataRequests(req) = {}
    /\ req.result = None

\* C14: an Angel One endpoint request whose login fails is answered with
\* status 503.
C14_AuthFailureIsServiceUnavailable ==
    (req.op \in AngelEndpoints /\ Logins(req) # {} /\ ~LoginOk(req)) =>
        req.result.status_code = 503

\* the provider call delivered data
Delivered(c) == IF c.p = "AV" THEN c.out = AVData ELSE c.out # None

\* C15: the quote endpoint answers 404 with a detail message whenever no
\* provider call of the request delivered a quote, and otherwise answers 200
\* with the quote one of its provider calls delivered; it never answers 500.
C15_AbsentQuoteIs404 ==
    req.op = "GET /alpha-vantage/quote" =>
        IF \A i \in 1..Len(req.calls) : ~Delivered(req.calls[i])
        THEN /\ req.result.status_code = 404
             /\ req.result.detail # ""
        ELSE /\ req.result.status_code = 200
             /\ \E i \in 1..Len(req.calls) :
                   /\ Delivered(req.calls[i])
                   /\ req.result.body.producer = req.calls[i].p
                   /\ req.result.body.symbol = req.symbol

\* Alpha Vantage failed, Yahoo Finance had nothing, the answer is 404
C15_Witness ==
    /\ req.op = "GET /alpha-vantage/quote"
    /\ Len(req.calls) = 2
    /\ req.calls[1].out \in ErrMsgs
    /\ req.calls[2].out = None
    /\ req.result.status_code = 404

\* both providers have price data
PriceData == [info |-> "ok", hist |-> "ok"]

\* C16: for a US symbol with price data the indicators endpoint answers 200
\* for every indicator function and every period, with Alpha Vantage enabled
\* or not.
C16_EveryIndicatorAnswers200 ==
    \A symbol \in USSymbols, function \in IndicatorFunctions,
       time_period \in TimePeriods :
        get_alpha_vantage_indicators(symbol, function, time_period,
                                     AVData, PriceData).response.status_code
            = 200

\* the outcomes of the get_stock_data calls of a trace, in their order
Fetches(trace) ==
    LET IsFetch(ev) == ev.e = "call" /\ ev.fn = "get_stock_data"
    IN  SelectSeq(trace, IsFetch)

\* the positions of the tickers whose last fetch in the trace returned data
Kept(trace, tickers) ==
    LET fs == Fetches(trace)
    IN  {i \in 1..Len(tickers) :
            fs[Len(fs) - Len(tickers) + i].out = "data"}

\* the dashboard request of the worker answered from the providers
DashboardBuilt(p) ==
    /\ procs[p].ep = "dashboard"
    /\ procs[p].pc = "done"
    /\ Fetches(procs[p].trace) # <<>>

HasSuffix(symbol, suffix) ==
    \E k \in 0..Len(symbol) : symbol = SubSeq(symbol, 1, k) \o suffix

HasExchangeSuffix(symbol) == HasSuffix(symbol, DotNS) \/ HasSuffix(symbol, DotBSE)

IsIndianOps == {"Mapper.is_indian_symbol", "Hybrid._is_indian_symbol"}

\* C18: for every symbol, the mapper and the resolver both answer that it
\* is Indian exactly when it ends with .NS or with .BSE.
C18_IndianIffExchangeSuffix ==
    req.op \in IsIndianOps =>
        (req.result.value <=> HasExchangeSuffix(req.symbol))

\* a symbol that holds .NS but does not end with it is not Indian
C18_Witness ==
    /\ req.op = "Mapper.is_indian_symbol"
    /\ contains(req.symbol, DotNS)
    /\ ~HasExchangeSuffix(req.symbol)
    /\ req.result.value = FALSE

\* the symbol without the exchange suffix it ends with
WithoutSuffix(symbol) ==
    IF HasSuffix(symbol, DotNS)
    THEN SubSeq(symbol, 1, Len(symbol) - Len(DotNS))
    ELSE IF HasSuffix(symbol, DotBSE)
    THEN SubSeq(symbol, 1, Len(symbol) - Len(DotBSE))
    ELSE symbol

\* what the conversion is stated to return
Converted(symbol) ==
    IF ~HasExchangeSuffix(symbol) THEN symbol
    ELSE IF symbol \in DOMAIN indian_to_us_mapping
    THEN indian_to_us_mapping[symbol]
    ELSE WithoutSuffix(symbol)

\* the text before the exchange suffix holds neither .NS nor .BSE
SuffixOnlyAtEnd(symbol) ==
    /\ ~contains(WithoutSuffix(symbol), DotNS)
    /\ ~contains(WithoutSuffix(symbol), DotBSE)

\* C19 as stated: convert_for_alpha_vantage returns the table entry of an
\* Indian symbol that has one, the symbol without its exchange suffix for
\* an Indian symbol that has none, and any other symbol unchanged.
C19_ConvertForAlphaVantage_AsStated ==
    req.op = "Mapper.convert_for_alpha_vantage" =>
        req.result.value = Converted(req.symbol)

\* C19: convert_for_alpha_vantage returns the table entry of an Indian
\* symbol that has one, the symbol without its exchange suffix for an
\* Indian symbol that has none and holds .NS and .BSE nowhere before that
\* suffix, and any other symbol unchanged.
C19_ConvertForAlphaVantage ==
    (/\ req.op = "Mapper.convert_for_alpha_vantage"
     /\ HasExchangeSuffix(req.symbol) => SuffixOnlyAtEnd(req.symbol)) =>
        req.result.value = Converted(req.symbol)

\* an Indian symbol without a table entry came back without its suffix
C19_Witness ==
    /\ req.op = "Mapper.convert_for_alpha_vantage"
    /\ HasSuffix(req.symbol, DotBSE)
    /\ req.symbol \notin DOMAIN indian_to_us_mapping
    /\ SuffixOnlyAtEnd(req.symbol)
    /\ req.result.value \o DotBSE = req.symbol

\* the candidates as stated: the table entry if there is one, the bare
\* symbol, the bare symbol with .BSE, the bare symbol with .NS
Candidates(symbol) ==
    (IF symbol \in DOMAIN indian_to_us_mapping
     THEN <<indian_to_us_mapping[symbol]>> ELSE <<>>)
    \o <<WithoutSuffix(symbol), WithoutSuffix(symbol) \o DotBSE,
         WithoutSuffix(symbol) \o DotNS>>

\* the Alpha Vantage calls of a request, in their order
AVCalls(r) ==
    LET IsAV(c) == c.p = "AV" IN SelectSeq(r.calls, IsAV)

\* the service asked Alpha Vantage about the candidates in their order, the
\* first one with data ended the loop and is reported
TriedInOrder(r) ==
    LET tried == AVCalls(r)
        cands == IF HasExchangeSuffix(r.symbol) THEN Candidates(r.symbol)
                 ELSE <<r.symbol>>
    IN  /\ Len(tried) <= Len(cands)
        /\ \A i \in 1..Len(tried) :
              /\ tried[i].sym = cands[i]
              /\ tried[i].out = AVData =>
                    /\ i = Len(tried)
                    /\ r.result.source = "Alpha Vantage"
                    /\ r.result.alpha_vantage_symbol = cands[i]
                    /\ r.result.symbol = r.symbol
        /\ (r.result # None /\ r.result.producer = "AV") =>
              (tried # <<>> /\ tried[Len(tried)].out = AVData)

ServiceOps ==
    {"Service.get_stock_quote", "Service.get_daily_data",
     "Service.get_intraday_data", "Service.get_technical_indicators"}

\* the rate-limited flag is set and its reset time has not passed
InCooldown ==
    /\ rate_limited
    /\ rate_limit_reset_time # None
    /\ ~(now > rate_limit_reset_time.at)

\* C24: while the rate-limited flag is in effect no operation of
\* AlphaVantageService calls Alpha Vantage, and the reset time stays as
\* it is.
C24_NoPrimaryCallInCooldown ==
    [][(InCooldown /\ req' # req /\ req'.op \in ServiceOps) =>
          /\ AVCalls(req') = <<>>
          /\ rate_limit_reset_time' = rate_limit_reset_time]_vars

\* the step is a quote request of the service that finds the reset time passed
QuoteAfterCooldown ==
    /\ req' # req
    /\ req'.op = "Service.get_stock_quote"
    /\ svc_enabled
    /\ rate_limited
    /\ rate_limit_reset_time # None
    /\ now > rate_limit_reset_time.at

\* C25: every step leaves the flag set only together with a reset time; a
\* quote request that finds the reset time passed asks Alpha Vantage first,
\* and ends with flag and reset time both cleared unless Alpha Vantage
\* raised a rate-limit error again, which starts a new cooldown of 24 hours.
C25_CooldownEnds ==
    [][/\ rate_limited' => rate_limit_reset_time' # None
       /\ QuoteAfterCooldown =>
             /\ req'.calls # <<>>
             /\ req'.calls[1].p = "AV"
             /\ IF \E i \in 1..Len(req'.calls) :
                      /\ req'.calls[i].p = "AV"
                      /\ req'.calls[i].out \in ErrMsgs
                      /\ quote_is_rate_limit(req'.calls[i].out)
                THEN /\ rate_limited'
                     /\ rate_limit_reset_time' = At(now + RateLimitCooldown)
                ELSE /\ ~rate_limited'
                     /\ rate_limit_reset_time' = None]_vars

\* a quote request answered by Alpha Vantage after a cooldown ended
C25_Witness ==
    /\ req.op = "Service.get_stock_quote"
    /\ req.prior # None
    /\ req.t > req.prior.at + RateLimitCooldown
    /\ req.calls # <<>>
    /\ req.calls[1].p = "AV"
    /\ req.result # None
    /\ req.result.producer = "AV"
    /\ ~rate_limited
    /\ rate_limit_reset_time = None

\* C30: an indicator request of the resolver that names an unsupported
\* function returns absent and calls no provider, for every symbol and with
\* Alpha Vantage enabled or not.
C30_UnsupportedIndicatorIsAbsent ==
    (/\ req.op = "Hybrid.get_technical_indicators"
     /\ upper(req.function) \notin HybridIndicators) =>
        /\ req.result = None
        /\ req.calls = <<>>

\* C26: a quote of HybridDataService lists 'Alpha Vantage' among its
\* data_sources only when the attached alpha_vantage_data was produced by
\* Alpha Vantage.
C26_DataSourcesNameTheProducer ==
    (/\ req.op = "HybridData.get_stock_quote"
     /\ req.result # None
     /\ "data_sources" \in DOMAIN req.result
     /\ \E i \in 1..Len(req.result.data_sources) :
           req.result.data_sources[i] = "Alpha Vantage") =>
        req.result.alpha_vantage_data.producer = "AV"

\* C29: a data call whose login fails leaves the stored token, its expiry
\* and the Authorization header of the session as they were; after every
\* step an expiry is stored exactly when a token is stored.
C29_FailedLoginChangesNothing ==
    [][/\ (AngelDataCall /\ Logins(req') # {} /\ ~LoginOk(req')) =>
             UNCHANGED <<auth_token, token_expiry, auth_header>>
       /\ (token_expiry' # None) <=> (auth_token' # None)]_vars

\* a refused login made while an expired token and its header were stored
C29_Witness ==
    /\ req.op \in AngelOps
    /\ Logins(req) # {}
    /\ \E i \in Logins(req) : req.calls[i].out = "rejected"
    /\ auth_token # None
    /\ auth_header = [bearer |-> auth_token]
    /\ token_expiry = At(auth_token.jwt + TokenLifetime)
    /\ req.t >= token_expiry.at

\* C27: every value a request of /stocks, /signals or /news stores in the
\* cache comes from a provider call that succeeded: the last provider call
\* the request made before the put did not raise.
C27_OnlyFetchedDataIsCached ==
    \A p \in Workers :
        procs[p].ep \in {"stock", "signal", "news"} =>
            LET trace == procs[p].trace
            IN  \A i \in 1..Len(trace) :
                    trace[i].e = "put" =>
                        \E j \in 1..(i - 1) :
                            /\ trace[j].e = "call"
                            /\ trace[j].out # "raise"
                            /\ \A k \in (j + 1)..(i - 1) : trace[k].e # "call"


-----------------------------------------------------------------------------
(* The currency service *)

\* the pair asked of GET /currency/convert is USD to INR, as the endpoint
\* compares it
UsdToInr(args) ==
    upper(args.from_currency) = "USD" /\ upper(args.to_currency) = "INR"

\* C22: GET /currency/convert for a pair other than USD to INR answers with
\* status 400 and the detail "Only USD to INR conversion is currently
\* supported".
C22_OtherPairIs400 ==
    (req.op = "GET /currency/convert" /\ ~UsdToInr(req.args)) =>
        /\ req.result.status_code = 400
        /\ req.result.detail =
               "Only USD to INR conversion is currently supported"

\* a request that calls get_usd_to_inr_rate is served in this step
CurrencyCall ==
    /\ req' # req
    /\ req'.op \in {"Currency.get_usd_to_inr_rate", "GET /currency/convert"}

\* the last successful update is less than cache_duration seconds old
Fresh ==
    last_update # None /\ seconds(now - last_update.at) < cache_duration

\* C23: while the last successful update is less than 3600 seconds old
\* get_usd_to_inr_rate fetches nothing and returns the stored rate; a fetch is
\* made only with an API key configured and a rate that is stale or was never
\* fetched; the stored rate and its update time change only in a step with a
\* successful fetch, to the fetched rate and the time of the fetch.
C23_StoredRateWhileFresh ==
    [][/\ (CurrencyCall /\ Fresh) => req'.calls = <<>>
       /\ (CurrencyCall /\ Fresh /\ req'.op = "Currency.get_usd_to_inr_rate")
              => req'.result = [value |-> usd_to_inr_rate]
       /\ (CurrencyCall /\ req'.calls # <<>>) => (api_key # None /\ ~Fresh)
       /\ (usd_to_inr_rate' # usd_to_inr_rate \/ last_update' # last_update)
              => /\ CurrencyCall
                 /\ \E i \in 1..Len(req'.calls) :
                        /\ _fetch_real_time_rate(req'.calls[i]) # None
                        /\ usd_to_inr_rate' =
                               _fetch_real_time_rate(req'.calls[i]).value
                 /\ last_update' = At(now)]_vars

\* a rate fetched earlier is returned, half an hour later, without a fetch
C23_Witness ==
    /\ req.op = "Currency.get_usd_to_inr_rate"
    /\ api_key # None
    /\ last_update # None
    /\ req.t > last_update.at
    /\ seconds(req.t - last_update.at) < cache_duration
    /\ usd_to_inr_rate # DefaultRate
    /\ req.calls = <<>>
    /\ req.result = [value |-> usd_to_inr_rate]

\* C28: in every 200 response of GET /currency/convert, converted_amount is
\* original_amount times the exchange_rate of the same response.
C28_ConvertedIsAmountTimesRate ==
    (req.op = "GET /currency/convert" /\ req.result.status_code = 200) =>
        req.result.body.converted_amount =
            req.result.body.original_amount * req.result.body.exchange_rate


-----------------------------------------------------------------------------
(* RSI *)

\* no price of the trailing window of the series is below the one before it
ZeroLosses(prices, window) ==
    \A i \in 2..Len(prices) :
        i > Len(prices) - window => prices[i] >= prices[i - 1]

\* some price of the trailing window is above the one before it
SomeGain(prices, window) ==
    \E i \in 2..Len(prices) :
        i > Len(prices) - window /\ prices[i] > prices[i - 1]

\* the RSI of the last point of the series a request computed
LastRsi(r) ==
    IF r.op = "Main._calculate_rsi" THEN r.result[Len(r.result)] ELSE r.result

RsiOps == {"HybridData._calculate_rsi", "Main._calculate_rsi"}

\* C21: the RSI of a series of at least 14 prices with no loss in its trailing
\* 14-point window is 100, whether the window holds a gain or not.
C21_ZeroLossRsiIs100 ==
    (/\ req.op \in RsiOps
     /\ Len(req.args.prices) >= req.args.period
     /\ ZeroLosses(req.args.prices, req.args.period))
        => LastRsi(req) = Float(100, 1)

====
